---- MODULE Spec2Model ----
(***************************************************************************)
(* State-machine model of rest-snapview: the application state (app.rs),   *)
(* the input classifier (event.rs), the control loop and the background    *)
(* tasks (main.rs) and the parts of the renderer that write state (ui.rs). *)
(*                                                                         *)
(* Strings that the code inspects character by character (file names, the  *)
(* search query, the picker's path text) are sequences of one-character    *)
(* strings.  A snapshot path is a record [abs, segs]: whether it starts at *)
(* the root, and its components; "/" is [TRUE, <<>>] and "" is             *)
(* [FALSE, <<>>].  An Option<T> is a sequence of length 0 (None) or 1.     *)
(*                                                                         *)
(* Spec is the control loop: a key is handled (draw, handle_key,           *)
(* spawn_command), a task completes, a completion is folded, or the poll   *)
(* times out.  The user of a session draws keys from one repertoire.  The  *)
(* variables observed and backs are history: they record what the Files    *)
(* panel showed before each descent.  LiveSpec is Spec with weak fairness   *)
(* of the fold and of task completion.  FilterSpec is the search mode      *)
(* alone, started on any short entry list and query.  PickerSpec is the    *)
(* directory picker alone, opened at the working directory, with typing.   *)
(* BackSpec is the control loop started in a directory that has two        *)
(* sub-directories, after a search was confirmed.  Text offsets are byte   *)
(* offsets: every character is one byte wide except "U+00E9", two bytes.   *)
(***************************************************************************)
EXTENDS Integers, Sequences, FiniteSets, TLC

\* ------------------------------------------------------------------------
\* Bounds of the model
\* ------------------------------------------------------------------------
\* Background operations (running tasks plus unfolded completions) the
\* model lets exist at once.
MaxOutstanding == 2
\* Background operations the model lets exist at once while a destination
\* picker exists or one of them is a restore.
MaxWithRestore == 1
\* Deepest Navigation Cache the model lets the user build.
MaxNavStack == 2
\* Longest search query the model lets the user type.
MaxQuery == 1
\* Longest picker text the model lets the user extend by typing.
MaxTyped == 0
\* Height of the Snapshots panel's area, in rows, borders included.
SnapshotsAreaHeight == 4
\* Height of the Files panel's area, in rows, borders included.
FilesAreaHeight == 4
\* Height of the picker's directory-listing area, in rows, borders included.
DialogListAreaHeight == 3
\* entries of an entry list given to the search filter
MaxEntries == 3
\* characters of a query given to the search filter
MaxFilterQuery == 2
\* longest path text the user types into the picker (PickerSpec)
MaxPickerText == 4

\* ------------------------------------------------------------------------
\* Program constants
\* ------------------------------------------------------------------------
ChannelCapacity == 10
InitialVisibleHeight == 20
I32Max == 2147483647
I32Min == (0 - 2147483647) - 1

\* ------------------------------------------------------------------------
\* Generic helpers
\* ------------------------------------------------------------------------
Min(x, y) == IF x < y THEN x ELSE y
Max(x, y) == IF x > y THEN x ELSE y
SatSub(x, y) == IF x > y THEN x - y ELSE 0
Last(s) == s[Len(s)]
Front(s) == SubSeq(s, 1, Len(s) - 1)
RemoveAt(s, i) == SubSeq(s, 1, i - 1) \o SubSeq(s, i + 1, Len(s))
InsertAt(s, i, x) == SubSeq(s, 1, i - 1) \o <<x>> \o SubSeq(s, i, Len(s))
None == <<>>

\* String::len: the length in bytes of the UTF-8 encoding.  Every character
\* of the model is one byte wide except "U+00E9" (e with acute accent), which
\* is two bytes wide.
RECURSIVE str_len(_)
str_len(s) ==
    IF s = <<>> THEN 0
    ELSE (IF Head(s) = "U+00E9" THEN 2 ELSE 1) + str_len(Tail(s))

\* String::insert(idx, c) and String::remove(idx), idx a byte offset on a
\* character boundary: the character position is the number of characters
\* that end at or before idx
string_insert(s, idx, c) ==
    InsertAt(s, Cardinality({ n \in 1..Len(s) : str_len(SubSeq(s, 1, n)) <= idx }) + 1, c)

string_remove(s, idx) ==
    RemoveAt(s, Cardinality({ n \in 1..Len(s) : str_len(SubSeq(s, 1, n)) <= idx }) + 1)
Some(x) == <<x>>

\* char::to_lowercase over the characters of the model
to_lowercase_char(c) ==
    CASE c = "D" -> "d"
      [] c = "O" -> "o"
      [] c = "Q" -> "q"
      [] c = "G" -> "g"
      [] OTHER -> c

to_lowercase(s) == [i \in 1..Len(s) |-> to_lowercase_char(s[i])]

\* str::contains: needle occurs in hay as a contiguous substring
contains(hay, needle) ==
    \E i \in 0..(Len(hay) - Len(needle)) :
        SubSeq(hay, i + 1, i + Len(needle)) = needle

\* ------------------------------------------------------------------------
\* Paths inside a snapshot
\* ------------------------------------------------------------------------
P(segs) == [abs |-> TRUE, segs |-> segs]
RootPath == [abs |-> TRUE, segs |-> <<>>]
EmptyPath == [abs |-> FALSE, segs |-> <<>>]
NAPath == [abs |-> FALSE, segs |-> << <<"N">>, <<"A">> >>]

\* std::path::Path::parent, as an Option
path_parent(p) ==
    IF p.segs = <<>> THEN None ELSE Some([abs |-> p.abs, segs |-> Front(p.segs)])

DotDot == <<".", ".">>

FileNode(name, node_type, path) ==
    [name |-> name, node_type |-> node_type, path |-> path]

is_dir(f) == f.node_type = "dir"

\* file.rs parent_entry
parent_entry(current_path) ==
    LET par == path_parent(current_path)
        parent_path == IF par = None THEN RootPath ELSE par[1]
    IN  FileNode(DotDot, "dir", parent_path)

\* ------------------------------------------------------------------------
\* The archive: two snapshots of one small tree
\*   /h  /h/Do  /h/Do/d(file)  /h/q(file)
\* ------------------------------------------------------------------------
nH == <<"h">>
nDo == <<"D", "o">>
nQ == <<"q">>
nD == <<"d">>

Snapshot(full_id, paths) == [full_id |-> full_id, paths |-> paths]

\* snapshot.rs primary_path
primary_path(s) == IF s.paths = <<>> THEN NAPath ELSE s.paths[1]

\* Result of list_snapshots, newest first
ArchiveSnapshots ==
    << Snapshot("s1", <<P(<<nH>>)>>), Snapshot("s2", <<P(<<nH, nDo>>)>>) >>

Child(dir, name, node_type) == FileNode(name, node_type, P(dir \o <<name>>))

\* Result of list_files on success: the direct children of path, directories
\* first, each group in case-insensitive name order
ArchiveListing(snapshot_id, path) ==
    CASE path = RootPath -> << Child(<<>>, nH, "dir") >>
      [] path = P(<<nH>>) ->
            << Child(<<nH>>, nDo, "dir"), Child(<<nH>>, nQ, "file") >>
      [] path = P(<<nH, nDo>>) ->
            << Child(<<nH, nDo>>, nD, "file") >>
      [] OTHER -> <<>>

\* ------------------------------------------------------------------------
\* event.rs: keys, commands, movements
\* ------------------------------------------------------------------------
Key(code, ch, ctrl, shift) == [code |-> code, ch |-> ch, ctrl |-> ctrl, shift |-> shift]
Plain(code) == Key(code, "", FALSE, FALSE)
Char(c) == Key("Char", c, FALSE, FALSE)
Ctrl(c) == Key("Char", c, TRUE, FALSE)

IsChar(key, c) == key.code = "Char" /\ key.ch = c

NoCommand == [kind |-> "None", snapshot_id |-> "", path |-> EmptyPath, target |-> <<>>]
QuitCommand == [NoCommand EXCEPT !.kind = "Quit"]
NavigateDir(path) == [NoCommand EXCEPT !.kind = "NavigateDir", !.path = path]
LoadSnapshot(snapshot_id, path) ==
    [NoCommand EXCEPT !.kind = "LoadSnapshot", !.snapshot_id = snapshot_id, !.path = path]
DownloadCommand(path, target) ==
    [NoCommand EXCEPT !.kind = "Download", !.path = path, !.target = target]

Movement(kind, n) == [kind |-> kind, n |-> n]

\* Faulty variant of key_to_movement: the Control modifier is not looked at,
\* so Control+f/b/d/u are the plain letters
key_to_movement_ctrl_blind(key) ==
    CASE key.code = "Up" \/ IsChar(key, "k") -> Some(Movement("Up", 1))
      [] key.code = "Down" \/ IsChar(key, "j") -> Some(Movement("Down", 1))
      [] key.code = "PageUp" -> Some(Movement("PageUp", 0))
      [] key.code = "PageDown" -> Some(Movement("PageDown", 0))
      [] key.code = "Home" \/ IsChar(key, "g") -> Some(Movement("Top", 0))
      [] key.code = "End" \/ IsChar(key, "G") -> Some(Movement("Bottom", 0))
      [] OTHER -> None

key_to_movement(key) ==
    CASE IsChar(key, "f") /\ key.ctrl -> Some(Movement("PageDown", 0))
      [] IsChar(key, "b") /\ key.ctrl -> Some(Movement("PageUp", 0))
      [] IsChar(key, "d") /\ key.ctrl -> Some(Movement("HalfPageDown", 0))
      [] IsChar(key, "u") /\ key.ctrl -> Some(Movement("HalfPageUp", 0))
      [] key.code = "Up" \/ (IsChar(key, "k") /\ ~key.ctrl) -> Some(Movement("Up", 1))
      [] key.code = "Down" \/ (IsChar(key, "j") /\ ~key.ctrl) -> Some(Movement("Down", 1))
      [] key.code = "PageUp" -> Some(Movement("PageUp", 0))
      [] key.code = "PageDown" -> Some(Movement("PageDown", 0))
      [] key.code = "Home" \/ (IsChar(key, "g") /\ ~key.ctrl) -> Some(Movement("Top", 0))
      [] key.code = "End" \/ (IsChar(key, "G") /\ ~key.ctrl) -> Some(Movement("Bottom", 0))
      [] OTHER -> None

is_panel_switch(key) == key.code \in {"Tab", "BackTab"}
is_select(key) == key.code = "Enter"
is_back(key) == key.code \in {"Backspace", "Left"} \/ IsChar(key, "h")
is_download(key) == IsChar(key, "d")
\* Faulty variant of is_quit: Esc is not a quit key
is_quit_q_only(key) == IsChar(key, "q")
is_quit(key) == IsChar(key, "q") \/ key.code = "Esc"
\* Faulty variant of is_help: no key toggles help
is_help_never(key) == FALSE
is_help(key) == IsChar(key, "?")

\* ------------------------------------------------------------------------
\* app.rs: AppState
\* ------------------------------------------------------------------------
Mode(tag) == [tag |-> tag, path |-> EmptyPath, msg |-> ""]
Loading == Mode("Loading")
Ready == Mode("Ready")
FileSearch == Mode("FileSearch")
DownloadDialogState == Mode("DownloadDialog")
Help == Mode("Help")
Downloading(path) == [Mode("Downloading") EXCEPT !.path = path]
Error(msg) == [Mode("Error") EXCEPT !.msg = msg]

Res(a, cmd) == [app |-> a, cmd |-> cmd]

\* ------------------------------------------------------------------------
\* The local filesystem seen by the directory picker
\*   /  /b  /.h (hidden directory)  /.h/b  /.h/h  /f (file)
\* ------------------------------------------------------------------------
LocalDirs ==
    { <<>>, << <<"b">> >>, << <<".", "h">> >>,
      << <<".", "h">>, <<"b">> >>, << <<".", "h">>, <<"h">> >> }
LocalFiles == { << <<"f">> >> }
\* std::env::current_dir() and $HOME of the process
CurrentDir == <<"/">>
HomeDir == Some(<<"/", "b">>)

Ascii(c) ==
    CASE c = "." -> 46 [] c = "/" -> 47 [] c = "?" -> 63
      [] c = "D" -> 68 [] c = "G" -> 71 [] c = "O" -> 79 [] c = "Q" -> 81
      [] c = "X" -> 88 [] c = "b" -> 98 [] c = "c" -> 99 [] c = "d" -> 100
      [] c = "f" -> 102 [] c = "g" -> 103 [] c = "h" -> 104 [] c = "j" -> 106
      [] c = "k" -> 107 [] c = "o" -> 111 [] c = "q" -> 113 [] c = "x" -> 120
      [] c = "~" -> 126 [] OTHER -> 127

\* Ord::cmp on strings: a <= b, byte-wise lexicographic
RECURSIVE StrLeq(_, _)
StrLeq(a, b) ==
    IF a = <<>> THEN TRUE
    ELSE IF b = <<>> THEN FALSE
    ELSE IF Ascii(a[1]) # Ascii(b[1]) THEN Ascii(a[1]) < Ascii(b[1])
    ELSE StrLeq(Tail(a), Tail(b))

\* Components of a path text, split at '/'
RECURSIVE Components(_, _)
Components(text, cur) ==
    IF text = <<>> THEN (IF cur = <<>> THEN <<>> ELSE <<cur>>)
    ELSE IF text[1] = "/"
         THEN (IF cur = <<>> THEN <<>> ELSE <<cur>>) \o Components(Tail(text), <<>>)
         ELSE Components(Tail(text), Append(cur, text[1]))

\* Path resolution by the filesystem: from the directory cur follow the
\* components, "." staying, ".." going up (the root is its own parent), a
\* name entering that directory; None when a name is not a directory
RECURSIVE Walk(_, _)
Walk(cur, comps) ==
    IF comps = <<>> THEN Some(cur)
    ELSE IF Head(comps) = <<".">> THEN Walk(cur, Tail(comps))
    ELSE IF Head(comps) = DotDot
    THEN Walk(IF cur = <<>> THEN cur ELSE Front(cur), Tail(comps))
    ELSE IF Append(cur, Head(comps)) \in LocalDirs
    THEN Walk(Append(cur, Head(comps)), Tail(comps))
    ELSE None

\* Absolute component list of the directory the text resolves to (relative
\* texts resolve against the working directory), or None for the empty text
\* and for a text that does not lead through directories
ResolveText(text) ==
    IF text = <<>> THEN None
    ELSE IF text[1] = "/" THEN Walk(<<>>, Components(text, <<>>))
    ELSE Walk(Components(CurrentDir, <<>>), Components(text, <<>>))

\* Path::is_dir
text_is_dir(text) ==
    LET r == ResolveText(text) IN r # None /\ r[1] \in LocalDirs

\* Path::components read from the back skips separators and "." components
\* (a "." that starts a relative path is a component of its own)
RECURSIVE StripSlashes(_)
StripSlashes(text) ==
    IF text # <<>> /\ Last(text) = "/" THEN StripSlashes(Front(text))
    ELSE IF Len(text) >= 2 /\ Last(text) = "." /\ text[Len(text) - 1] = "/"
    THEN StripSlashes(Front(text))
    ELSE text

RECURSIVE StripComponent(_)
StripComponent(text) ==
    IF text # <<>> /\ Last(text) # "/" THEN StripComponent(Front(text)) ELSE text

\* Path::parent on a path text, as an Option
text_parent(text) ==
    LET t1 == StripSlashes(text)
        t2 == StripComponent(t1)
        t3 == StripSlashes(t2)
    IN  IF t1 = <<>> THEN None
        ELSE IF t2 = <<>> THEN Some(<<>>)
        ELSE IF t3 = <<>> THEN Some(<<"/">>)
        ELSE Some(t3)

\* PathBuf::join with a single component
text_join(base, name) ==
    IF base = <<>> THEN name
    ELSE IF Last(base) = "/" THEN base \o name
    ELSE base \o <<"/">> \o name

\* std::fs::read_dir: the names of the directories in the directory,
\* or None when the text is not a directory
read_dir_dirs(text) ==
    IF text_is_dir(text)
    THEN LET d == ResolveText(text)[1]
         IN  Some({ Last(x) : x \in { y \in LocalDirs : y # <<>> /\ Front(y) = d } })
    ELSE None

RECURSIVE SortByLowercase(_)
SortByLowercase(S) ==
    IF S = {} THEN <<>>
    ELSE LET m == CHOOSE x \in S :
                    \A y \in S : StrLeq(to_lowercase(x), to_lowercase(y))
         IN  <<m>> \o SortByLowercase(S \ {m})

\* ------------------------------------------------------------------------
\* app.rs: DownloadDialog
\* ------------------------------------------------------------------------
DirEntry(name) == [name |-> name, is_dir |-> TRUE]

focus_next(d) ==
    [d EXCEPT !.focus = CASE d.focus = "PathPicker" -> "DownloadButton"
                          [] d.focus = "DownloadButton" -> "CancelButton"
                          [] OTHER -> "PathPicker"]

\* Faulty variant of focus_prev: from the path text backward goes to the
\* confirm control
focus_prev_skips_cancel(d) ==
    [d EXCEPT !.focus = CASE d.focus = "PathPicker" -> "DownloadButton"
                          [] d.focus = "DownloadButton" -> "PathPicker"
                          [] OTHER -> "DownloadButton"]

focus_prev(d) ==
    [d EXCEPT !.focus = CASE d.focus = "PathPicker" -> "CancelButton"
                          [] d.focus = "DownloadButton" -> "PathPicker"
                          [] OTHER -> "DownloadButton"]

expand_tilde(path) ==
    IF path # <<>> /\ path[1] = "~" /\ HomeDir # None
    THEN IF path = <<"~">> THEN HomeDir[1]
         ELSE IF Len(path) >= 2 /\ path[2] = "/" THEN HomeDir[1] \o Tail(path)
         ELSE path
    ELSE path

\* The directory whose sub-directories are listed for a text
dir_to_read(text) ==
    IF text_is_dir(text) THEN text
    ELSE LET par == text_parent(text) IN IF par = None THEN <<"/">> ELSE par[1]

refresh_entries(d) ==
    LET dir == dir_to_read(expand_tilde(d.input_text))
        dotdot == IF text_parent(dir) # None /\ dir # <<"/">>
                  THEN <<DirEntry(DotDot)>> ELSE <<>>
        rd == read_dir_dirs(dir)
        names == IF rd = None THEN {} ELSE { n \in rd[1] : n[1] # "." }
        sorted == SortByLowercase(names)
    IN  [d EXCEPT !.entries = dotdot \o [i \in 1..Len(sorted) |-> DirEntry(sorted[i])],
                  !.selected = 0,
                  !.scroll = 0]

DownloadDialog_new(source_path, initial_dir) ==
    refresh_entries([source_path |-> source_path,
                     input_text |-> initial_dir,
                     cursor_pos |-> Len(initial_dir),
                     entries |-> <<>>,
                     selected |-> 0,
                     scroll |-> 0,
                     focus |-> "PathPicker"])

insert_char(d, c) ==
    refresh_entries([d EXCEPT !.input_text = string_insert(d.input_text, d.cursor_pos, c),
                              !.cursor_pos = d.cursor_pos + 1])

\* Faulty variant of backspace: the listing is not refreshed
backspace_no_refresh(d) ==
    IF d.cursor_pos > 0
    THEN [d EXCEPT !.cursor_pos = d.cursor_pos - 1,
                   !.input_text = string_remove(d.input_text, d.cursor_pos - 1)]
    ELSE d

backspace(d) ==
    IF d.cursor_pos > 0
    THEN refresh_entries([d EXCEPT !.cursor_pos = d.cursor_pos - 1,
                                   !.input_text = string_remove(d.input_text, d.cursor_pos - 1)])
    ELSE d

delete(d) ==
    IF d.cursor_pos < str_len(d.input_text)
    THEN refresh_entries([d EXCEPT !.input_text = string_remove(d.input_text, d.cursor_pos)])
    ELSE d

cursor_left(d) == IF d.cursor_pos > 0 THEN [d EXCEPT !.cursor_pos = d.cursor_pos - 1] ELSE d

cursor_right(d) ==
    IF d.cursor_pos < str_len(d.input_text) THEN [d EXCEPT !.cursor_pos = d.cursor_pos + 1] ELSE d

cursor_home(d) == [d EXCEPT !.cursor_pos = 0]

cursor_end(d) == [d EXCEPT !.cursor_pos = str_len(d.input_text)]

select_prev(d) == IF d.selected > 0 THEN [d EXCEPT !.selected = d.selected - 1] ELSE d

select_next(d) ==
    IF d.entries # <<>> /\ d.selected < Len(d.entries) - 1
    THEN [d EXCEPT !.selected = d.selected + 1]
    ELSE d

go_parent(d) ==
    LET expanded == expand_tilde(d.input_text)
        p1 == text_parent(expanded)
        parent == IF text_is_dir(expanded) THEN p1
                  ELSE IF p1 = None THEN None ELSE text_parent(p1[1])
    IN  IF parent = None THEN d
        ELSE LET t == IF parent[1] = <<>> THEN <<"/">> ELSE parent[1]
             IN  refresh_entries([d EXCEPT !.input_text = t, !.cursor_pos = Len(t)])

enter_selected(d) ==
    IF d.selected + 1 > Len(d.entries) THEN d
    ELSE LET entry == d.entries[d.selected + 1]
         IN  IF ~entry.is_dir THEN d
             ELSE IF entry.name = DotDot THEN go_parent(d)
             ELSE LET base == dir_to_read(expand_tilde(d.input_text))
                      t == text_join(base, entry.name)
                  IN  refresh_entries([d EXCEPT !.input_text = t, !.cursor_pos = Len(t)])

confirmed_path(d) ==
    LET expanded == expand_tilde(d.input_text)
        par == text_parent(expanded)
    IN  IF text_is_dir(expanded) THEN expanded
        ELSE IF par = None THEN <<"/">> ELSE par[1]

dialog_adjust_scroll(d, visible_height) ==
    IF visible_height = 0 THEN d
    ELSE IF d.selected < d.scroll THEN [d EXCEPT !.scroll = d.selected]
    ELSE IF d.selected >= d.scroll + visible_height
         THEN [d EXCEPT !.scroll = d.selected - visible_height + 1]
    ELSE d

\* ------------------------------------------------------------------------
\* app.rs: App
\* ------------------------------------------------------------------------
DirCache(path, files, cursor, scroll) ==
    [path |-> path, files |-> files, cursor |-> cursor, scroll |-> scroll]

\* App::new, followed by main's fold of list_snapshots
App_new ==
    [state |-> Loading,
     focused_panel |-> "Snapshots",
     snapshots |-> <<>>,
     snapshot_cursor |-> 0,
     snapshot_scroll |-> 0,
     current_snapshot_id |-> None,
     current_path |-> EmptyPath,
     files |-> <<>>,
     filtered_files |-> <<>>,
     file_cursor |-> 0,
     file_scroll |-> 0,
     nav_stack |-> <<>>,
     search_query |-> <<>>,
     search_cursor |-> 0,
     download_dialog |-> None,
     last_download_dir |-> CurrentDir,
     status_message |-> None,
     snapshot_visible_height |-> InitialVisibleHeight,
     file_visible_height |-> InitialVisibleHeight,
     should_quit |-> FALSE]

FilterActive(a) == ~(a.search_query = <<>> /\ a.state.tag # "FileSearch")

visible_file_count(a) ==
    IF FilterActive(a) THEN Len(a.filtered_files) ELSE Len(a.files)

\* Vec::get on the 0-based index i
Get(s, i) == IF i >= 0 /\ i < Len(s) THEN Some(s[i + 1]) ELSE None

visible_files(a) ==
    IF FilterActive(a)
    THEN LET ok == SelectSeq(a.filtered_files, LAMBDA i : i < Len(a.files))
         IN  [k \in 1..Len(ok) |-> a.files[ok[k] + 1]]
    ELSE a.files

file_at_cursor(a) ==
    IF FilterActive(a)
    THEN LET i == Get(a.filtered_files, a.file_cursor)
         IN  IF i = None THEN None ELSE Get(a.files, i[1])
    ELSE Get(a.files, a.file_cursor)

\* Faulty variant of clamp_cursor: the jump deltas are added like relative
\* moves, so current + i32::MAX wraps below zero for every current > 0
clamp_cursor_jump_wraps(current, delta, max) ==
    IF delta = I32Max /\ current > 0 THEN 0
    ELSE IF delta = I32Max THEN max
    ELSE Max(0, Min(current + delta, max))

\* Faulty variant of clamp_cursor: the relative move is not clamped above
clamp_cursor_unclamped(current, delta, max) ==
    IF delta = I32Min THEN 0
    ELSE IF delta = I32Max THEN max
    ELSE Max(0, current + delta)

clamp_cursor(current, delta, max) ==
    IF delta = I32Min THEN 0
    ELSE IF delta = I32Max THEN max
    ELSE Max(0, Min(current + delta, max))

MovementDelta(movement, visible_height) ==
    CASE movement.kind = "Up" -> 0 - movement.n
      [] movement.kind = "Down" -> movement.n
      [] movement.kind = "PageUp" -> 0 - visible_height
      [] movement.kind = "PageDown" -> visible_height
      [] movement.kind = "HalfPageUp" -> 0 - Max(visible_height \div 2, 1)
      [] movement.kind = "HalfPageDown" -> Max(visible_height \div 2, 1)
      [] movement.kind = "Top" -> I32Min
      [] movement.kind = "Bottom" -> I32Max

apply_movement(a, movement) ==
    LET count == IF a.focused_panel = "Snapshots"
                 THEN Len(a.snapshots) ELSE visible_file_count(a)
        visible_height == IF a.focused_panel = "Snapshots"
                          THEN a.snapshot_visible_height ELSE a.file_visible_height
        delta == MovementDelta(movement, visible_height)
    IN  IF count = 0 THEN a
        ELSE IF a.focused_panel = "Snapshots"
        THEN [a EXCEPT !.snapshot_cursor = clamp_cursor(a.snapshot_cursor, delta, count - 1)]
        ELSE [a EXCEPT !.file_cursor = clamp_cursor(a.file_cursor, delta, count - 1)]

\* Faulty variant of MatchSet: names and query are compared as typed
MatchSet_case_sensitive(files, search_query) ==
    LET Matches(i) == files[i].name = DotDot
                      \/ search_query = <<>>
                      \/ contains(files[i].name, search_query)
        idx == SelectSeq([i \in 1..Len(files) |-> i], Matches)
    IN  [k \in 1..Len(idx) |-> idx[k] - 1]

\* The match set of a query over an entry list: 0-based indices, in order
MatchSet(files, search_query) ==
    LET query == to_lowercase(search_query)
        Matches(i) == files[i].name = DotDot
                      \/ query = <<>>
                      \/ contains(to_lowercase(files[i].name), query)
        idx == SelectSeq([i \in 1..Len(files) |-> i], Matches)
    IN  [k \in 1..Len(idx) |-> idx[k] - 1]

\* Faulty variant of apply_search_filter: the old match set is not cleared
apply_search_filter_no_clear(a) ==
    [a EXCEPT !.filtered_files = a.filtered_files \o MatchSet(a.files, a.search_query),
              !.file_cursor = 0,
              !.file_scroll = 0]

apply_search_filter(a) ==
    [a EXCEPT !.filtered_files = MatchSet(a.files, a.search_query),
              !.file_cursor = 0,
              !.file_scroll = 0]

\* Faulty variant of start_file_search: an empty entry list is searched too
start_file_search_on_empty(a) ==
    [apply_search_filter([a EXCEPT !.search_query = <<>>, !.search_cursor = 0])
        EXCEPT !.state = FileSearch]

start_file_search(a) ==
    IF a.files = <<>> THEN a
    ELSE [apply_search_filter([a EXCEPT !.search_query = <<>>, !.search_cursor = 0])
            EXCEPT !.state = FileSearch]

\* Faulty variant of handle_file_search_key: Enter applies the filter again
handle_file_search_key_enter_refilters(a, key) ==
    Res(CASE key.code = "Esc" ->
                [apply_search_filter([a EXCEPT !.search_query = <<>>]) EXCEPT !.state = Ready]
          [] key.code = "Enter" -> [apply_search_filter(a) EXCEPT !.state = Ready]
          [] key.code = "Up" \/ IsChar(key, "k") -> apply_movement(a, Movement("Up", 1))
          [] key.code = "Down" \/ IsChar(key, "j") -> apply_movement(a, Movement("Down", 1))
          [] key.code = "Backspace" ->
                IF a.search_cursor > 0
                THEN apply_search_filter(
                        [a EXCEPT !.search_cursor = a.search_cursor - 1,
                                  !.search_query = string_remove(a.search_query, a.search_cursor - 1)])
                ELSE a
          [] key.code = "Delete" ->
                IF a.search_cursor < str_len(a.search_query)
                THEN apply_search_filter(
                        [a EXCEPT !.search_query = string_remove(a.search_query, a.search_cursor)])
                ELSE a
          [] key.code = "Left" ->
                IF a.search_cursor > 0
                THEN [a EXCEPT !.search_cursor = a.search_cursor - 1] ELSE a
          [] key.code = "Right" ->
                IF a.search_cursor < str_len(a.search_query)
                THEN [a EXCEPT !.search_cursor = a.search_cursor + 1] ELSE a
          [] key.code = "Home" -> [a EXCEPT !.search_cursor = 0]
          [] key.code = "End" -> [a EXCEPT !.search_cursor = str_len(a.search_query)]
          [] key.code = "Char" /\ key.ch \notin {"k", "j"} ->
                apply_search_filter(
                    [a EXCEPT !.search_query = string_insert(a.search_query, a.search_cursor, key.ch),
                              !.search_cursor = a.search_cursor + 1])
          [] OTHER -> a,
        NoCommand)

handle_file_search_key(a, key) ==
    Res(CASE key.code = "Esc" ->
                [apply_search_filter([a EXCEPT !.search_query = <<>>]) EXCEPT !.state = Ready]
          [] key.code = "Enter" -> [a EXCEPT !.state = Ready]
          [] key.code = "Up" \/ IsChar(key, "k") -> apply_movement(a, Movement("Up", 1))
          [] key.code = "Down" \/ IsChar(key, "j") -> apply_movement(a, Movement("Down", 1))
          [] key.code = "Backspace" ->
                IF a.search_cursor > 0
                THEN apply_search_filter(
                        [a EXCEPT !.search_cursor = a.search_cursor - 1,
                                  !.search_query = string_remove(a.search_query, a.search_cursor - 1)])
                ELSE a
          [] key.code = "Delete" ->
                IF a.search_cursor < str_len(a.search_query)
                THEN apply_search_filter(
                        [a EXCEPT !.search_query = string_remove(a.search_query, a.search_cursor)])
                ELSE a
          [] key.code = "Left" ->
                IF a.search_cursor > 0
                THEN [a EXCEPT !.search_cursor = a.search_cursor - 1] ELSE a
          [] key.code = "Right" ->
                IF a.search_cursor < str_len(a.search_query)
                THEN [a EXCEPT !.search_cursor = a.search_cursor + 1] ELSE a
          [] key.code = "Home" -> [a EXCEPT !.search_cursor = 0]
          [] key.code = "End" -> [a EXCEPT !.search_cursor = str_len(a.search_query)]
          [] key.code = "Char" /\ key.ch \notin {"k", "j"} ->
                apply_search_filter(
                    [a EXCEPT !.search_query = string_insert(a.search_query, a.search_cursor, key.ch),
                              !.search_cursor = a.search_cursor + 1])
          [] OTHER -> a,
        NoCommand)

\* The key makes handle_file_search_key panic: String::insert and
\* String::remove assert that the byte offset is on a character boundary, and
\* String::remove that a character starts there
handle_file_search_key_panics(a, key) ==
    LET q == a.search_query
        c == a.search_cursor
        boundary(idx) == \E n \in 0..Len(q) : str_len(SubSeq(q, 1, n)) = idx
    IN  CASE key.code \in {"Esc", "Enter", "Up", "Down"} -> FALSE
          [] IsChar(key, "k") \/ IsChar(key, "j") -> FALSE
          [] key.code = "Backspace" ->
                c > 0 /\ (~boundary(c - 1) \/ c - 1 >= str_len(q))
          [] key.code = "Delete" -> c < str_len(q) /\ ~boundary(c)
          [] key.code = "Char" -> ~boundary(c)
          [] OTHER -> FALSE

\* The focus-specific part of handle_download_dialog_key for the path picker
PathPickerKey(d, key) ==
    CASE key.code = "Down" -> select_next(d)
      [] key.code = "Up" -> select_prev(d)
      [] key.code = "Enter" /\ ~key.ctrl -> enter_selected(d)
      [] key.code = "Left" -> cursor_left(d)
      [] key.code = "Right" -> cursor_right(d)
      [] key.code = "Home" -> cursor_home(d)
      [] key.code = "End" -> cursor_end(d)
      [] key.code = "Backspace" -> backspace(d)
      [] key.code = "Delete" -> delete(d)
      [] key.code = "Char" /\ ~key.ctrl -> insert_char(d, key.ch)
      [] OTHER -> d

\* Faulty variant of handle_download_dialog_key: Enter confirms on the
\* cancel control too
handle_download_dialog_key_cancel_confirms(a, key) ==
    IF a.download_dialog = None THEN Res(a, NoCommand)
    ELSE LET dialog == a.download_dialog[1]
         IN  IF key.code = "Esc"
             THEN Res([a EXCEPT !.download_dialog = None, !.state = Ready], NoCommand)
             ELSE IF key.code \in {"Tab", "BackTab"}
             THEN Res([a EXCEPT !.download_dialog =
                          Some(IF key.shift \/ key.code = "BackTab"
                               THEN focus_prev(dialog) ELSE focus_next(dialog))],
                      NoCommand)
             ELSE IF dialog.focus = "PathPicker"
             THEN Res([a EXCEPT !.download_dialog = Some(PathPickerKey(dialog, key))],
                      NoCommand)
             ELSE IF key.code = "Enter"
                  THEN Res([a EXCEPT !.last_download_dir = confirmed_path(dialog),
                                     !.download_dialog = None],
                           DownloadCommand(dialog.source_path, confirmed_path(dialog)))
                  ELSE Res(a, NoCommand)

handle_download_dialog_key(a, key) ==
    IF a.download_dialog = None THEN Res(a, NoCommand)
    ELSE LET dialog == a.download_dialog[1]
         IN  IF key.code = "Esc"
             THEN Res([a EXCEPT !.download_dialog = None, !.state = Ready], NoCommand)
             ELSE IF key.code \in {"Tab", "BackTab"}
             THEN Res([a EXCEPT !.download_dialog =
                          Some(IF key.shift \/ key.code = "BackTab"
                               THEN focus_prev(dialog) ELSE focus_next(dialog))],
                      NoCommand)
             ELSE IF dialog.focus = "PathPicker"
             THEN Res([a EXCEPT !.download_dialog = Some(PathPickerKey(dialog, key))],
                      NoCommand)
             ELSE IF dialog.focus = "DownloadButton"
             THEN IF key.code = "Enter"
                  THEN Res([a EXCEPT !.last_download_dir = confirmed_path(dialog),
                                     !.download_dialog = None],
                           DownloadCommand(dialog.source_path, confirmed_path(dialog)))
                  ELSE Res(a, NoCommand)
             ELSE IF key.code = "Enter"
                  THEN Res([a EXCEPT !.download_dialog = None, !.state = Ready], NoCommand)
                  ELSE Res(a, NoCommand)

\* Faulty variant of open_download_dialog: the parent entry can be restored
open_download_dialog_on_parent(a) ==
    IF a.focused_panel # "Files" THEN Res(a, NoCommand)
    ELSE LET file == file_at_cursor(a)
         IN  IF file = None THEN Res(a, NoCommand)
             ELSE Res([a EXCEPT !.download_dialog =
                                    Some(DownloadDialog_new(file[1].path, a.last_download_dir)),
                                !.state = DownloadDialogState],
                      NoCommand)

\* Faulty variant of open_download_dialog: the picker starts at the working
\* directory
open_download_dialog_at_cwd(a) ==
    IF a.focused_panel # "Files" THEN Res(a, NoCommand)
    ELSE LET file == file_at_cursor(a)
         IN  IF file = None \/ file[1].name = DotDot THEN Res(a, NoCommand)
             ELSE Res([a EXCEPT !.download_dialog =
                                    Some(DownloadDialog_new(file[1].path, CurrentDir)),
                                !.state = DownloadDialogState],
                      NoCommand)

open_download_dialog(a) ==
    IF a.focused_panel # "Files" THEN Res(a, NoCommand)
    ELSE LET file == file_at_cursor(a)
         IN  IF file = None \/ file[1].name = DotDot THEN Res(a, NoCommand)
             ELSE Res([a EXCEPT !.download_dialog =
                                    Some(DownloadDialog_new(file[1].path, a.last_download_dir)),
                                !.state = DownloadDialogState],
                      NoCommand)

\* App::adjust_scroll
adjust_scroll(a, panel, visible_height) ==
    IF visible_height = 0 THEN a
    ELSE IF panel = "Snapshots"
    THEN IF a.snapshot_cursor < a.snapshot_scroll
         THEN [a EXCEPT !.snapshot_scroll = a.snapshot_cursor]
         ELSE IF a.snapshot_cursor >= a.snapshot_scroll + visible_height
         THEN [a EXCEPT !.snapshot_scroll = a.snapshot_cursor - visible_height + 1]
         ELSE a
    ELSE IF a.file_cursor < a.file_scroll
         THEN [a EXCEPT !.file_scroll = a.file_cursor]
         ELSE IF a.file_cursor >= a.file_scroll + visible_height
         THEN [a EXCEPT !.file_scroll = a.file_cursor - visible_height + 1]
         ELSE a

\* Faulty variant of switch_panel: the focus always goes to Files
switch_panel_to_files(a) == [a EXCEPT !.focused_panel = "Files"]

switch_panel(a) ==
    [a EXCEPT !.focused_panel = IF a.focused_panel = "Snapshots" THEN "Files" ELSE "Snapshots"]

\* Faulty variant of go_back: the cached cursor is not restored
go_back_cursor_reset(a) ==
    IF a.focused_panel # "Files" \/ a.current_snapshot_id = None THEN Res(a, NoCommand)
    ELSE IF a.nav_stack # <<>>
    THEN LET cached == Last(a.nav_stack)
         IN  Res([a EXCEPT !.nav_stack = Front(a.nav_stack),
                           !.current_path = cached.path,
                           !.files = cached.files,
                           !.file_cursor = 0,
                           !.file_scroll = cached.scroll,
                           !.filtered_files = <<>>,
                           !.search_query = <<>>,
                           !.state = Ready],
                 NoCommand)
    ELSE LET parent == parent_entry(a.current_path)
         IN  IF parent.path = a.current_path THEN Res(a, NoCommand)
             ELSE Res([a EXCEPT !.current_path = parent.path,
                                !.file_cursor = 0,
                                !.state = Loading],
                      NavigateDir(parent.path))

go_back(a) ==
    IF a.focused_panel # "Files" \/ a.current_snapshot_id = None THEN Res(a, NoCommand)
    ELSE IF a.nav_stack # <<>>
    THEN LET cached == Last(a.nav_stack)
         IN  Res([a EXCEPT !.nav_stack = Front(a.nav_stack),
                           !.current_path = cached.path,
                           !.files = cached.files,
                           !.file_cursor = cached.cursor,
                           !.file_scroll = cached.scroll,
                           !.filtered_files = <<>>,
                           !.search_query = <<>>,
                           !.state = Ready],
                 NoCommand)
    ELSE LET parent == parent_entry(a.current_path)
         IN  IF parent.path = a.current_path THEN Res(a, NoCommand)
             ELSE Res([a EXCEPT !.current_path = parent.path,
                                !.file_cursor = 0,
                                !.state = Loading],
                      NavigateDir(parent.path))

\* Faulty variant of select_item: selecting a snapshot keeps the cache
select_item_keeps_cache(a) ==
    IF a.focused_panel = "Snapshots"
    THEN LET snapshot == Get(a.snapshots, a.snapshot_cursor)
         IN  IF snapshot = None THEN Res(a, NoCommand)
             ELSE Res([a EXCEPT !.current_snapshot_id = Some(snapshot[1].full_id),
                                !.current_path = primary_path(snapshot[1]),
                                !.focused_panel = "Files",
                                !.file_cursor = 0,
                                !.state = Loading],
                      LoadSnapshot(snapshot[1].full_id, primary_path(snapshot[1])))
    ELSE LET file_info == file_at_cursor(a)
         IN  IF file_info = None \/ ~is_dir(file_info[1]) THEN Res(a, NoCommand)
             ELSE IF file_info[1].name = DotDot THEN go_back(a)
             ELSE Res([a EXCEPT !.nav_stack =
                                    Append(a.nav_stack,
                                           DirCache(a.current_path, a.files,
                                                    a.file_cursor, a.file_scroll)),
                                !.current_path = file_info[1].path,
                                !.file_cursor = 0,
                                !.search_query = <<>>,
                                !.state = Loading],
                      NavigateDir(file_info[1].path))

\* Faulty variant of select_item: the frame holds the visible (filtered) list
select_item_caches_visible(a) ==
    IF a.focused_panel = "Snapshots"
    THEN LET snapshot == Get(a.snapshots, a.snapshot_cursor)
         IN  IF snapshot = None THEN Res(a, NoCommand)
             ELSE Res([a EXCEPT !.current_snapshot_id = Some(snapshot[1].full_id),
                                !.current_path = primary_path(snapshot[1]),
                                !.focused_panel = "Files",
                                !.file_cursor = 0,
                                !.nav_stack = <<>>,
                                !.state = Loading],
                      LoadSnapshot(snapshot[1].full_id, primary_path(snapshot[1])))
    ELSE LET file_info == file_at_cursor(a)
         IN  IF file_info = None \/ ~is_dir(file_info[1]) THEN Res(a, NoCommand)
             ELSE IF file_info[1].name = DotDot THEN go_back(a)
             ELSE Res([a EXCEPT !.nav_stack =
                                    Append(a.nav_stack,
                                           DirCache(a.current_path, visible_files(a),
                                                    a.file_cursor, a.file_scroll)),
                                !.current_path = file_info[1].path,
                                !.file_cursor = 0,
                                !.search_query = <<>>,
                                !.state = Loading],
                      NavigateDir(file_info[1].path))

\* Faulty variant of select_item: the parent entry is entered as a directory
select_item_parent_descends(a) ==
    IF a.focused_panel = "Snapshots"
    THEN LET snapshot == Get(a.snapshots, a.snapshot_cursor)
         IN  IF snapshot = None THEN Res(a, NoCommand)
             ELSE Res([a EXCEPT !.current_snapshot_id = Some(snapshot[1].full_id),
                                !.current_path = primary_path(snapshot[1]),
                                !.focused_panel = "Files",
                                !.file_cursor = 0,
                                !.nav_stack = <<>>,
                                !.state = Loading],
                      LoadSnapshot(snapshot[1].full_id, primary_path(snapshot[1])))
    ELSE LET file_info == file_at_cursor(a)
         IN  IF file_info = None \/ ~is_dir(file_info[1]) THEN Res(a, NoCommand)
             ELSE IF FALSE THEN go_back(a)
             ELSE Res([a EXCEPT !.nav_stack =
                                    Append(a.nav_stack,
                                           DirCache(a.current_path, a.files,
                                                    a.file_cursor, a.file_scroll)),
                                !.current_path = file_info[1].path,
                                !.file_cursor = 0,
                                !.search_query = <<>>,
                                !.state = Loading],
                      NavigateDir(file_info[1].path))

select_item(a) ==
    IF a.focused_panel = "Snapshots"
    THEN LET snapshot == Get(a.snapshots, a.snapshot_cursor)
         IN  IF snapshot = None THEN Res(a, NoCommand)
             ELSE Res([a EXCEPT !.current_snapshot_id = Some(snapshot[1].full_id),
                                !.current_path = primary_path(snapshot[1]),
                                !.focused_panel = "Files",
                                !.file_cursor = 0,
                                !.nav_stack = <<>>,
                                !.state = Loading],
                      LoadSnapshot(snapshot[1].full_id, primary_path(snapshot[1])))
    ELSE LET file_info == file_at_cursor(a)
         IN  IF file_info = None \/ ~is_dir(file_info[1]) THEN Res(a, NoCommand)
             ELSE IF file_info[1].name = DotDot THEN go_back(a)
             ELSE Res([a EXCEPT !.nav_stack =
                                    Append(a.nav_stack,
                                           DirCache(a.current_path, a.files,
                                                    a.file_cursor, a.file_scroll)),
                                !.current_path = file_info[1].path,
                                !.file_cursor = 0,
                                !.search_query = <<>>,
                                !.state = Loading],
                      NavigateDir(file_info[1].path))

\* Faulty variant of set_files: the query survives the new listing
set_files_keeps_query(a, files) ==
    LET s == Get(a.snapshots, a.snapshot_cursor)
        snapshot_root == IF s = None THEN RootPath ELSE primary_path(s[1])
        display_files == IF a.current_path # snapshot_root /\ a.current_path # EmptyPath
                         THEN <<parent_entry(a.current_path)>> \o files
                         ELSE files
    IN  [a EXCEPT !.files = display_files,
                  !.filtered_files = <<>>,
                  !.file_cursor = 0,
                  !.file_scroll = 0,
                  !.state = Ready]

set_files(a, files) ==
    LET s == Get(a.snapshots, a.snapshot_cursor)
        snapshot_root == IF s = None THEN RootPath ELSE primary_path(s[1])
        display_files == IF a.current_path # snapshot_root /\ a.current_path # EmptyPath
                         THEN <<parent_entry(a.current_path)>> \o files
                         ELSE files
    IN  [a EXCEPT !.files = display_files,
                  !.filtered_files = <<>>,
                  !.search_query = <<>>,
                  !.search_cursor = 0,
                  !.file_cursor = 0,
                  !.file_scroll = 0,
                  !.state = Ready]

\* Faulty variant of set_error: the navigation cache is dropped
set_error_drops_cache(a, message) ==
    [a EXCEPT !.state = Error(message), !.nav_stack = <<>>]

set_error(a, message) == [a EXCEPT !.state = Error(message)]

set_status(a, message) == [a EXCEPT !.status_message = Some(message)]

\* Faulty variant of ignores_keys: keys are processed while Loading
ignores_keys_not_loading(a) == a.state.tag \in {"Help", "Downloading"}

\* handle_key's test "Don't process keys in help or loading state"
ignores_keys(a) == a.state.tag \in {"Help", "Loading", "Downloading"}

\* Faulty variant of clear_error: the error stays
clear_error_keep(a) == a

\* handle_key's step "Clear error state on any key"
clear_error(a) == IF a.state.tag = "Error" THEN [a EXCEPT !.state = Ready] ELSE a

handle_key(a, key) ==
    IF a.state.tag = "DownloadDialog" THEN handle_download_dialog_key(a, key)
    ELSE IF a.state.tag = "FileSearch" THEN handle_file_search_key(a, key)
    ELSE IF is_quit(key)
    THEN IF a.state.tag = "Help"
         THEN Res([a EXCEPT !.state = Ready], NoCommand)
         ELSE Res([a EXCEPT !.should_quit = TRUE], QuitCommand)
    ELSE IF is_help(key)
    THEN Res([a EXCEPT !.state = IF a.state.tag = "Help" THEN Ready ELSE Help], NoCommand)
    ELSE IF ignores_keys(a) THEN Res(a, NoCommand)
    ELSE LET a1 == clear_error(a)
         IN  IF key_to_movement(key) # None
             THEN Res(apply_movement(a1, key_to_movement(key)[1]), NoCommand)
             ELSE IF is_panel_switch(key) THEN Res(switch_panel(a1), NoCommand)
             ELSE IF is_select(key) THEN select_item(a1)
             ELSE IF is_back(key) THEN go_back(a1)
             ELSE IF ~key.ctrl /\ is_download(key) THEN open_download_dialog(a1)
             ELSE IF IsChar(key, "/") /\ a1.focused_panel = "Files"
             THEN Res(start_file_search(a1), NoCommand)
             ELSE Res(a1, NoCommand)

\* ------------------------------------------------------------------------
\* main.rs: background tasks, result channel and control loop
\* ------------------------------------------------------------------------
VARIABLES
    app,      \* the App aggregate
    tasks,    \* spawned tasks whose backend call has not completed
    chan,     \* the mpsc channel of TaskResult
    cmd,      \* what handle_key returned for the last key since a fold
    user,     \* the repertoire this session's user draws keys from
    observed, \* history: what the Files panel showed before each descent
              \* that has not been undone by a back
    backs     \* history: backs that undid a descent since the last descent

vars == <<app, tasks, chan, cmd, user, observed, backs>>

Task(kind, snapshot_id, path, target) ==
    [kind |-> kind, snapshot_id |-> snapshot_id, path |-> path, target |-> target]

TaskResult(kind, task, ok, files, msg) ==
    [kind |-> kind,
     command |-> [snapshot_id |-> task.snapshot_id, path |-> task.path],
     ok |-> ok,
     files |-> files,
     target |-> task.target,
     msg |-> msg]

\* The arm for Command::LoadSnapshot: list the snapshot's path
spawn_load_snapshot(a, t, c) ==
    [app |-> a, tasks |-> Append(t, Task("Files", c.snapshot_id, c.path, <<>>))]

spawn_command(a, t, c) ==
    CASE c.kind = "NavigateDir" ->
            IF a.current_snapshot_id # None
            THEN [app |-> a,
                  tasks |-> Append(t, Task("Files", a.current_snapshot_id[1], c.path, <<>>))]
            ELSE [app |-> a, tasks |-> t]
      [] c.kind = "Download" ->
            IF a.current_snapshot_id # None
            THEN [app |-> [a EXCEPT !.state = Downloading(c.path)],
                  tasks |-> Append(t, Task("Download", a.current_snapshot_id[1],
                                           c.path, c.target))]
            ELSE [app |-> a, tasks |-> t]
      [] c.kind = "LoadSnapshot" -> spawn_load_snapshot(a, t, c)
      [] OTHER -> [app |-> a, tasks |-> t]

\* The body of a spawned task: the backend call and the message it sends
RunTask(task, ok) ==
    IF task.kind = "Files"
    THEN TaskResult("Files", task, ok,
                    IF ok THEN ArchiveListing(task.snapshot_id, task.path) ELSE <<>>,
                    IF ok THEN "" ELSE "Failed to list files")
    ELSE TaskResult("Download", task, ok, <<>>,
                    IF ok THEN "" ELSE "Download failed")

\* Faulty variant of handle_task_result: a successful restore does not set
\* the state to Ready
handle_task_result_restore_stuck(a, result) ==
    IF result.kind = "Files"
    THEN IF result.ok THEN set_files(a, result.files) ELSE set_error(a, result.msg)
    ELSE IF result.ok
         THEN set_status(a, result.target)
         ELSE set_error(a, result.msg)

handle_task_result(a, result) ==
    IF result.kind = "Files"
    THEN IF result.ok THEN set_files(a, result.files) ELSE set_error(a, result.msg)
    ELSE IF result.ok
         THEN set_status([a EXCEPT !.state = Ready], result.target)
         ELSE set_error(a, result.msg)

\* Faulty variant of status_text: an error is shown in preference to the
\* status message
status_text_error_first(a) ==
    IF a.state.tag = "Error" THEN <<"Error", a.state.msg>>
    ELSE IF a.status_message # None THEN <<"Downloaded to", a.status_message[1]>>
    ELSE IF a.state.tag = "Downloading" THEN <<"Downloading", a.state.path>>
    ELSE <<a.state.tag>>

\* ui.rs render_status_bar: the text of the status bar, the fixed text of a
\* Mode given by the Mode's name
status_text(a) ==
    IF a.status_message # None THEN <<"Downloaded to", a.status_message[1]>>
    ELSE IF a.state.tag = "Downloading" THEN <<"Downloading", a.state.path>>
    ELSE IF a.state.tag = "Error" THEN <<"Error", a.state.msg>>
    ELSE <<a.state.tag>>

\* ui.rs render: the state the renderer writes back
render(a) ==
    LET vh_s == SatSub(SnapshotsAreaHeight, 2)
        a1 == adjust_scroll([a EXCEPT !.snapshot_visible_height = vh_s], "Snapshots", vh_s)
        bar == a.state.tag = "FileSearch" \/ a.search_query # <<>>
        vh_f == SatSub(IF bar THEN SatSub(FilesAreaHeight, 1) ELSE FilesAreaHeight, 2)
        a2 == adjust_scroll([a1 EXCEPT !.file_visible_height = vh_f], "Files", vh_f)
    IN  IF a2.state.tag = "DownloadDialog" /\ a2.download_dialog # None
        THEN [a2 EXCEPT !.download_dialog =
                 Some(dialog_adjust_scroll(a2.download_dialog[1],
                                           SatSub(DialogListAreaHeight, 2)))]
        ELSE a2

Outstanding == Len(tasks) + Len(chan)

\* Key events the model feeds to the loop.  A session's user draws the keys
\* from one repertoire, chosen when the session starts.
NavKeys ==
    { Char("h"), Char("g"), Char("G"), Ctrl("d"),
      Plain("Esc"), Plain("Enter"), Plain("Tab"), Plain("Up"), Plain("Down") }

\* browsing and searching
BrowseKeys == NavKeys \cup { Char("/") }

\* browsing and restoring
RestoreKeys == NavKeys \cup { Char("d") }

\* help while browsing
HelpKeys == { Char("q"), Char("?"), Char("h"), Plain("Enter"), Plain("Tab") }

\* help while restoring
HelpRestoreKeys ==
    { Char("q"), Char("?"), Char("d"), Plain("Esc"), Plain("Enter"), Plain("Tab") }

\* help while searching
HelpSearchKeys ==
    { Char("q"), Char("?"), Char("/"), Plain("Esc"), Plain("Enter"), Plain("Tab") }

\* searching by name, editing the query, moving in and descending from a
\* filtered view
SearchKeys ==
    { Char("/"), Char("D"), Char("G"),
      Plain("Backspace"), Plain("Esc"), Plain("Enter"), Plain("Down") }

Repertoires == { "Browse", "Restore", "Help", "HelpRestore", "HelpSearch", "Search" }

KeysOf(r) ==
    CASE r = "Browse" -> BrowseKeys
      [] r = "Restore" -> RestoreKeys
      [] r = "Help" -> HelpKeys
      [] r = "HelpRestore" -> HelpRestoreKeys
      [] r = "HelpSearch" -> HelpSearchKeys
      [] r = "Search" -> SearchKeys

Keys == UNION { KeysOf(r) : r \in Repertoires }

\* Characters the model lets the user type into the query and the picker text
TypedChars == {"q", "?", "D"}

\* Keys of the bounded model: the query and the picker text stay short
WithinBounds(a, key) ==
    /\ a.state.tag = "FileSearch" /\ key.code = "Char" /\ key.ch \notin {"k", "j"}
          => key.ch \in TypedChars /\ Len(a.search_query) < MaxQuery
    /\ a.state.tag = "DownloadDialog" /\ a.download_dialog # None
          /\ a.download_dialog[1].focus = "PathPicker" /\ key.code = "Char" /\ ~key.ctrl
          => key.ch \in TypedChars /\ Len(a.download_dialog[1].input_text) < MaxTyped

\* handle_key reaches the browsing actions for this key
BrowsingKey(a, key) ==
    /\ a.state.tag \in {"Ready", "Error"}
    /\ ~is_quit(key) /\ ~is_help(key)
    /\ key_to_movement(key) = None
    /\ ~is_panel_switch(key)

\* The key is a select on a directory of the Files panel: a descent
IsDescent(a, key) ==
    /\ BrowsingKey(a, key) /\ is_select(key)
    /\ a.focused_panel = "Files"
    /\ file_at_cursor(a) # None
    /\ is_dir(file_at_cursor(a)[1])
    /\ file_at_cursor(a)[1].name # DotDot

\* The key is a back action of the Files panel: the back key, or a select
\* on the parent entry
IsBack(a, key) ==
    /\ BrowsingKey(a, key)
    /\ a.focused_panel = "Files"
    /\ a.current_snapshot_id # None
    /\ IF is_select(key)
       THEN file_at_cursor(a) # None /\ file_at_cursor(a)[1].name = DotDot
       ELSE is_back(key)

\* The key is a select on a snapshot
IsSnapshotSelect(a, key) ==
    /\ BrowsingKey(a, key) /\ is_select(key)
    /\ a.focused_panel = "Snapshots"
    /\ Get(a.snapshots, a.snapshot_cursor) # None

\* What the Files panel shows
Observation(a) ==
    [path |-> a.current_path, files |-> a.files,
     cursor |-> a.file_cursor, scroll |-> a.file_scroll]

\* No key has been handled since the loop last folded a completion
NoKey == [NoCommand EXCEPT !.kind = "NoKey"]

Init ==
    /\ app \in { [App_new EXCEPT !.snapshots = ArchiveSnapshots, !.state = Ready],
                 set_error(App_new, "Failed to load snapshots") }
    /\ tasks = <<>>
    /\ chan = <<>>
    /\ cmd = NoKey
    /\ user \in Repertoires
    /\ observed = <<>>
    /\ backs = 0

\* Faulty variant of TaskComplete: the task ends without sending its result
TaskComplete_result_lost(i, ok) ==
    /\ ~app.should_quit
    /\ i \in 1..Len(tasks)
    /\ Len(chan) < ChannelCapacity
    /\ tasks' = RemoveAt(tasks, i)
    /\ UNCHANGED <<app, chan, cmd, user, observed, backs>>

\* A spawned task finishes its backend call and sends its result
TaskComplete(i, ok) ==
    /\ ~app.should_quit
    /\ i \in 1..Len(tasks)
    /\ Len(chan) < ChannelCapacity
    /\ chan' = Append(chan, RunTask(tasks[i], ok))
    /\ tasks' = RemoveAt(tasks, i)
    /\ UNCHANGED <<app, cmd, user, observed, backs>>

\* Faulty variant of Fold: the newest completion is folded first
Fold_newest_first ==
    /\ ~app.should_quit
    /\ chan # <<>>
    /\ app' = handle_task_result(app, Last(chan))
    /\ chan' = Front(chan)
    /\ cmd' = NoKey
    /\ UNCHANGED <<tasks, user, observed, backs>>

\* One turn of `while let Ok(result) = rx.try_recv()`
Fold ==
    /\ ~app.should_quit
    /\ chan # <<>>
    /\ app' = handle_task_result(app, Head(chan))
    /\ chan' = Tail(chan)
    /\ cmd' = NoKey
    /\ UNCHANGED <<tasks, user, observed, backs>>

\* try_recv finds the channel empty; the loop draws, poll returns a key
\* event: handle_key, spawn_command, the should_quit test
KeyPress(key) ==
    /\ ~app.should_quit
    /\ chan = <<>>
    /\ key \in KeysOf(user)
    /\ \E a \in {render(app)} :
       \E r \in {handle_key(a, key)} :
       \E s \in {spawn_command(r.app, tasks, r.cmd)} :
           /\ WithinBounds(a, key)
           /\ Len(s.tasks) <= MaxOutstanding
           /\ (\/ s.app.download_dialog # None
               \/ \E i \in 1..Len(s.tasks) : s.tasks[i].kind = "Download")
                  => Len(s.tasks) <= MaxWithRestore
           /\ Len(s.app.nav_stack) <= MaxNavStack
           /\ app' = s.app
           /\ tasks' = s.tasks
           /\ cmd' = r.cmd
           /\ CASE IsDescent(a, key) ->
                        observed' = Append(observed, Observation(a)) /\ backs' = 0
                 [] IsBack(a, key) /\ observed # <<>> ->
                        observed' = Front(observed) /\ backs' = backs + 1
                 [] IsSnapshotSelect(a, key) ->
                        observed' = <<>> /\ backs' = 0
                 [] OTHER -> UNCHANGED <<observed, backs>>
    /\ UNCHANGED <<chan, user>>

\* try_recv finds the channel empty; the loop draws, poll times out or
\* returns an event that is not a key
Timeout ==
    /\ ~app.should_quit
    /\ chan = <<>>
    /\ app' = render(app)
    /\ UNCHANGED <<tasks, chan, cmd, user, observed, backs>>

Next ==
    \/ \E i \in 1..MaxOutstanding, ok \in BOOLEAN : TaskComplete(i, ok)
    \/ Fold
    \/ \E key \in Keys : KeyPress(key)
    \/ Timeout

Spec == Init /\ [][Next]_vars

\* The loop of run_event_loop never blocks for more than the poll timeout, so
\* a completion waiting in the channel is folded; the backend call of a
\* spawned task returns and the runtime schedules the task.
LiveSpec ==
    /\ Init /\ [][Next]_vars
    /\ WF_vars(Fold)
    /\ WF_vars(\E i \in 1..MaxOutstanding, ok \in BOOLEAN : TaskComplete(i, ok))

\* ------------------------------------------------------------------------
\* Properties
\* ------------------------------------------------------------------------
QuitKeys == { Char("q"), Plain("Esc") }
HelpKey == Char("?")

FocusedCount ==
    IF app.focused_panel = "Snapshots" THEN Len(app.snapshots) ELSE visible_file_count(app)

FocusedCursor ==
    IF app.focused_panel = "Snapshots" THEN app.snapshot_cursor ELSE app.file_cursor

\* C1: whatever keys and folds came before, the focused panel's cursor is
\* within [0, count-1] whenever count > 0; count is the filtered count when
\* the query is non-empty or Mode is Searching, the raw count otherwise, and
\* the snapshot count for the Snapshots panel.
C1_CursorInRange ==
    FocusedCount > 0 => FocusedCursor >= 0 /\ FocusedCursor <= FocusedCount - 1

\* A movement has taken the Files cursor to the last row of a filtered view
C1_Witness ==
    /\ app.focused_panel = "Files"
    /\ FilterActive(app)
    /\ app.file_cursor > 0
    /\ app.file_cursor = visible_file_count(app) - 1

\* C2: a back action that undoes a descent restores exactly the path, entry
\* list, cursor and scroll offset observed immediately before that descent,
\* in reverse order of the descents, sets Mode to Ready and emits no command.
C2_BackRestores ==
    [][\A key \in Keys :
          observed # <<>> /\ IsBack(render(app), key) /\ KeyPress(key)
             => /\ Observation(app') = Last(observed)
                /\ app'.state = Ready
                /\ cmd' = NoCommand]_vars

\* Two descents have been undone by two backs
C2_Witness ==
    /\ backs = 2
    /\ observed = <<>>
    /\ app.state = Ready
    /\ cmd = NoCommand

\* The primary root path of the active snapshot
ActiveRoot(a) ==
    LET S == { i \in 1..Len(a.snapshots) :
                  Some(a.snapshots[i].full_id) = a.current_snapshot_id }
    IN  IF S = {} THEN NAPath ELSE primary_path(a.snapshots[CHOOSE i \in S : TRUE])

ParentEntryShown(a) == a.files # <<>> /\ a.files[1].name = DotDot

\* C3: when a listing comes to be displayed, by a successful listing fold or
\* by a cache restoration, the parent entry '..' is in the Files entry list
\* iff the current path differs from the primary root path of the active
\* snapshot, wherever the snapshot highlight is.
C3_ParentEntryIffBelowRoot ==
    [][(\/ Fold /\ Head(chan).kind = "Files" /\ Head(chan).ok
        \/ \E key \in Keys :
              app.nav_stack # <<>> /\ IsBack(render(app), key) /\ KeyPress(key))
          => (ParentEntryShown(app') <=> app'.current_path # ActiveRoot(app'))]_vars

\* C4: at most one background operation is outstanding, counting running
\* tasks and completions not yet folded.
C4_AtMostOneOutstanding == Outstanding <= 1

\* C5: a successful listing completion that is folded is the listing
\* requested for the active snapshot and the current path at fold time.
C5_FoldedListingIsCurrent ==
    [][Fold /\ Head(chan).kind = "Files" /\ Head(chan).ok
          => /\ Some(Head(chan).command.snapshot_id) = app.current_snapshot_id
             /\ Head(chan).command.path = app.current_path]_vars

\* C6 as stated: in every Mode other than Help a quit key sets the
\* terminate flag and yields Quit.
C6_QuitInEveryModeButHelp ==
    [][\A key \in QuitKeys :
          app.state.tag # "Help" /\ KeyPress(key)
             => app'.should_quit /\ cmd' = QuitCommand]_vars

\* C6: in the Modes Loading, Ready, Downloading and Error a quit key ('q' or
\* Esc) sets the terminate flag and yields a Quit command.
C6_QuitOutsideTextModes ==
    [][\A key \in QuitKeys :
          app.state.tag \in {"Loading", "Ready", "Downloading", "Error"} /\ KeyPress(key)
             => app'.should_quit /\ cmd' = QuitCommand]_vars

\* The user has quit while a restore was running
C6_Witness ==
    /\ app.should_quit
    /\ cmd = QuitCommand
    /\ app.state.tag = "Downloading"

\* C7 as stated: while Mode is Loading or Downloading every key other than
\* a quit key leaves the whole state unchanged and emits no command, and
\* Mode leaves Loading/Downloading only by a fold.
C7_OnlyQuitActsWhileBusy ==
    [][/\ \A key \in Keys \ QuitKeys :
             app.state.tag \in {"Loading", "Downloading"} /\ KeyPress(key)
                => app' = render(app) /\ cmd' = NoCommand /\ tasks' = tasks
       /\ app.state.tag \in {"Loading", "Downloading"} /\ app'.state # app.state
             => Fold]_vars

\* C7: while Mode is Loading or Downloading every key other than a quit key
\* and the help-toggle key leaves the whole state unchanged and emits no
\* command; Mode leaves Loading/Downloading only by a fold or by the
\* help-toggle key.
C7_KeysIgnoredWhileBusy ==
    [][/\ \A key \in Keys \ (QuitKeys \cup {HelpKey}) :
             app.state.tag \in {"Loading", "Downloading"} /\ KeyPress(key)
                => app' = render(app) /\ cmd' = NoCommand /\ tasks' = tasks
       /\ app.state.tag \in {"Loading", "Downloading"} /\ app'.state # app.state
             => Fold \/ KeyPress(HelpKey)]_vars

\* A key was handled while loading: it produced no command and Mode is
\* still Loading
C7_Witness ==
    /\ app.state = Loading
    /\ cmd = NoCommand
    /\ tasks # <<>>

\* In Help, the help-toggle key and the quit keys dismiss the help
HelpDismissed ==
    \A key \in QuitKeys \cup {HelpKey} :
       app.state.tag = "Help" /\ KeyPress(key)
          => app'.state = Ready /\ ~app'.should_quit /\ cmd' = NoCommand

\* C8 as stated: from every Mode the help-toggle key sets Mode to Help, and
\* in Help the help-toggle key or a quit key sets Mode to Ready.
C8_HelpFromEveryMode ==
    [][/\ app.state.tag # "Help" /\ KeyPress(HelpKey) => app'.state = Help
       /\ HelpDismissed]_vars

\* C8: from the Modes Loading, Ready, Downloading and Error the help-toggle
\* key sets Mode to Help; in Help, the help-toggle key or a quit key sets
\* Mode to Ready without setting the terminate flag or emitting a command.
C8_HelpOutsideTextModes ==
    [][/\ app.state.tag \in {"Loading", "Ready", "Downloading", "Error"}
             /\ KeyPress(HelpKey)
          => app'.state = Help
       /\ HelpDismissed]_vars

\* Help was opened while a restore was running
C8_Witness ==
    /\ app.state = Help
    /\ \E i \in 1..Len(tasks) : tasks[i].kind = "Download"

C10_FoldSetsMode ==
    [][Fold => /\ app'.state = IF Head(chan).ok THEN Ready ELSE Error(Head(chan).msg)
               /\ app'.state.tag \notin {"Loading", "Downloading"}]_vars

\* A failed restore has been folded
C10_Witness ==
    /\ app.state = Error("Download failed")
    /\ cmd = NoKey

Highlighted(a) == Get(a.snapshots, a.snapshot_cursor)[1]

HighlightedEntry(a) == Get(visible_files(a), a.file_cursor)

\* C13: a select with Files focused.  If the highlighted entry of the visible
\* (possibly filtered) list is a directory other than the parent entry,
\* exactly one frame {current path, full entry list, cursor, scroll} is
\* pushed on the Navigation Cache, the search query is cleared, Mode becomes
\* Loading and one directory-listing command for that entry's path is
\* emitted (and one listing task started).  If the highlighted entry is a
\* file, or there is no entry, the select changes nothing and emits no
\* command.  The state the select acts on is the one drawn last, with an
\* error already dismissed by the key.
C13_FilesSelect ==
    [][\A key \in Keys :
          app.focused_panel = "Files" /\ app.state.tag \in {"Ready", "Error"}
             /\ is_select(key) /\ KeyPress(key)
          => LET a == clear_error(render(app))
                 e == HighlightedEntry(a)
             IN  IF e = None \/ ~is_dir(e[1])
                 THEN app' = a /\ cmd' = NoCommand /\ tasks' = tasks
                 ELSE e[1].name # DotDot
                      => /\ app'.nav_stack =
                               Append(a.nav_stack,
                                      [path |-> a.current_path, files |-> a.files,
                                       cursor |-> a.file_cursor, scroll |-> a.file_scroll])
                         /\ app'.search_query = <<>>
                         /\ app'.state = Loading
                         /\ app'.current_path = e[1].path
                         /\ cmd' = NavigateDir(e[1].path)
                         /\ a.current_snapshot_id # None
                         /\ tasks' = Append(tasks, Task("Files", a.current_snapshot_id[1],
                                                       e[1].path, <<>>))]_vars

\* A descent was made from a filtered view: the pushed frame holds the full
\* entry list, of which the filter showed only a part
C13_Witness ==
    /\ app.state = Loading
    /\ cmd.kind = "NavigateDir"
    /\ app.nav_stack # <<>>
    /\ Last(app.nav_stack).files = app.files
    /\ app.search_query = <<>>
    /\ app.filtered_files # <<>>
    /\ Len(app.filtered_files) < Len(app.files)

\* C14: the back action is a no-op (no state change, no command) when the
\* Snapshots panel is focused or no snapshot is active; with an empty
\* Navigation Cache at the snapshot root it emits no command and leaves path
\* and Mode unchanged; with an empty cache at any other path it emits
\* exactly one directory-listing command for the parent of the current path
\* and sets Mode to Loading.
C14_BackStopsAtSnapshotRoot ==
    [][\A key \in Keys :
          app.state.tag \in {"Ready", "Error"} /\ is_back(key) /\ KeyPress(key)
          => LET a == clear_error(render(app))
             IN  IF a.focused_panel = "Snapshots" \/ a.current_snapshot_id = None
                 THEN app' = a /\ cmd' = NoCommand
                 ELSE IF a.nav_stack # <<>> THEN TRUE
                 ELSE IF a.current_path = ActiveRoot(a)
                 THEN /\ cmd' = NoCommand
                      /\ app'.current_path = a.current_path
                      /\ app'.state = a.state
                 ELSE /\ cmd' = NavigateDir(parent_entry(a.current_path).path)
                      /\ app'.state = Loading]_vars

\* A back key
BackKey == Plain("Backspace")

\* C15: from any state in which the Files panel is focused and the
\* highlighted entry is the synthetic parent entry, the select action gives
\* exactly the successor state and the emitted command (or absence of one)
\* that the back action gives.
C15_SelectParentIsBack ==
    [][\A key \in Keys :
          app.focused_panel = "Files" /\ app.state.tag \in {"Ready", "Error"}
             /\ is_select(key)
             /\ HighlightedEntry(render(app)) # None
             /\ HighlightedEntry(render(app))[1].name = DotDot
             /\ KeyPress(key)
          => LET back == handle_key(render(app), BackKey)
                 started == spawn_command(back.app, tasks, back.cmd)
             IN  /\ is_back(BackKey)
                 /\ app' = started.app
                 /\ cmd' = back.cmd
                 /\ tasks' = started.tasks]_vars

\* A user who has no back key has undone a descent by selecting the parent
\* entry
C15_Witness ==
    /\ \A key \in KeysOf(user) : ~is_back(key)
    /\ backs > 0
    /\ app.state = Ready
    /\ cmd = NoCommand

\* The start-search key
SearchKey == Char("/")

\* C16: Mode becomes Searching only from Ready (or Error, which the key
\* dismisses) on the start-search key, and only when the Files panel is
\* focused and the entry list is non-empty, and then it does; with Snapshots
\* focused or an empty entry list the start-search key changes nothing
\* (apart from dismissing an error) and emits no command.  On entry the
\* query is empty and the match set contains every entry.
C16_SearchStart ==
    [][/\ app.state.tag # "FileSearch" /\ app'.state.tag = "FileSearch"
             => /\ app.state.tag \in {"Ready", "Error"}
                /\ app.focused_panel = "Files"
                /\ app.files # <<>>
                /\ KeyPress(SearchKey)
                /\ app'.search_query = <<>>
                /\ app'.filtered_files = [k \in 1..Len(app.files) |-> k - 1]
                /\ visible_files(app') = app.files
                /\ cmd' = NoCommand
       /\ app.state.tag \in {"Ready", "Error"} /\ app.focused_panel = "Files"
             /\ app.files # <<>> /\ KeyPress(SearchKey)
             => app'.state = FileSearch
       /\ (app.focused_panel = "Snapshots" \/ app.files = <<>>) /\ KeyPress(SearchKey)
             => /\ app' = clear_error(render(app))
                /\ cmd' = NoCommand
                /\ tasks' = tasks]_vars

\* A search was started below the snapshot root: the query is empty and
\* every entry is in the match set
C16_Witness ==
    /\ app.state = FileSearch
    /\ app.search_query = <<>>
    /\ app.filtered_files = <<0, 1>>
    /\ Len(app.files) = 2
    /\ app.nav_stack # <<>>
    /\ cmd = NoCommand

\* C17: in Searching, Enter sets Mode to Ready and leaves the query, the
\* match set and the cursor unchanged, so the same entries stay visible; Esc
\* sets Mode to Ready, empties the query and makes the whole unfiltered
\* entry list visible again; neither emits a command.
C17_SearchEnd ==
    [][/\ app.state.tag = "FileSearch" /\ KeyPress(Plain("Enter"))
             => /\ app'.state = Ready
                /\ app'.search_query = app.search_query
                /\ app'.filtered_files = app.filtered_files
                /\ app'.file_cursor = app.file_cursor
                /\ visible_files(app') = visible_files(app)
                /\ cmd' = NoCommand
                /\ tasks' = tasks
       /\ app.state.tag = "FileSearch" /\ KeyPress(Plain("Esc"))
             => /\ app'.state = Ready
                /\ app'.search_query = <<>>
                /\ app'.files = app.files
                /\ visible_files(app') = app.files
                /\ ~app'.should_quit
                /\ cmd' = NoCommand
                /\ tasks' = tasks]_vars

\* A search was confirmed with Enter: the query is kept and the cursor is
\* still on the second match
C17_Witness ==
    /\ app.state = Ready
    /\ app.search_query = <<"D">>
    /\ app.filtered_files = <<0, 1>>
    /\ app.file_cursor = 1
    /\ cmd = NoCommand

\* ------------------------------------------------------------------------
\* The search filter on its own: a search mode over any short entry list
\* and query
\* ------------------------------------------------------------------------
FilterDir == <<nH>>

FilterEntries ==
    { Child(FilterDir, nDo, "dir"), Child(FilterDir, nD, "file"),
      Child(FilterDir, nQ, "file"), Child(FilterDir, <<"o", "D">>, "file") }

\* Entry lists: distinct entries, with or without the parent entry in front
EntryLists ==
    LET Plain_ == UNION { { l \in [1..n -> FilterEntries] :
                               \A i, j \in 1..n : i # j => l[i] # l[j] } :
                          n \in 0..MaxEntries }
    IN  { l \in Plain_ : l # <<>> }
           \cup { <<parent_entry(P(FilterDir))>> \o l : l \in Plain_ }

FilterChars == {"d", "D", "o"}

\* Non-empty queries
Queries == UNION { [1..n -> FilterChars] : n \in 1..MaxFilterQuery }

\* Keys of the search mode that keep the mode
FilterKeys ==
    { Char(c) : c \in FilterChars \cup {"j", "k", "U+00E9"} }
       \cup { Plain("Backspace"), Plain("Delete"), Plain("Left"), Plain("Right"),
              Plain("Down"), Plain("Up") }

\* Searching, the query typed in, the filter applied by the last edit
FilterInit ==
    /\ \E files \in EntryLists, query \in Queries :
          app = apply_search_filter(
                   [App_new EXCEPT !.snapshots = ArchiveSnapshots,
                                   !.current_snapshot_id = Some("s1"),
                                   !.current_path = P(FilterDir),
                                   !.focused_panel = "Files",
                                   !.files = files,
                                   !.search_query = query,
                                   !.search_cursor = Len(query),
                                   !.state = FileSearch])
    /\ tasks = <<>>
    /\ chan = <<>>
    /\ cmd = NoKey
    /\ user = "Search"
    /\ observed = <<>>
    /\ backs = 0

\* A key of the search mode: draw, handle_key
FilterKey(key) ==
    /\ key \in FilterKeys
    /\ key.code = "Char" => Len(app.search_query) < MaxFilterQuery
    /\ ~handle_file_search_key_panics(render(app), key)
    /\ app' = handle_key(render(app), key).app
    /\ cmd' = handle_key(render(app), key).cmd
    /\ UNCHANGED <<tasks, chan, user, observed, backs>>

\* The filter is applied once more to the same entry list and query
ApplyFilter ==
    /\ app' = apply_search_filter(app)
    /\ UNCHANGED <<tasks, chan, cmd, user, observed, backs>>

FilterNext ==
    \/ \E key \in FilterKeys : FilterKey(key)
    \/ ApplyFilter

FilterSpec == FilterInit /\ [][FilterNext]_vars

\* C18: search filtering is idempotent and reversible.  For any entry list
\* and any query, applying the filter to a state that the filter produced
\* gives the same match set again; and an edit that brings a non-empty query
\* back to empty makes the visible list equal to the full unfiltered entry
\* list, with cursor and scroll both 0.
C18_FilterIdempotentReversible ==
    [][/\ ApplyFilter
             => /\ apply_search_filter(app').filtered_files = app'.filtered_files
                /\ app'.filtered_files = MatchSet(app.files, app.search_query)
       /\ \A key \in FilterKeys :
             app.search_query # <<>> /\ FilterKey(key) /\ app'.search_query = <<>>
             => /\ visible_files(app') = app.files
                /\ app'.files = app.files
                /\ app'.file_cursor = 0
                /\ app'.file_scroll = 0]_vars

\* The query over a full-length entry list has been edited back to empty:
\* the whole list is visible, the cursor and the scroll offset are 0
C18_Witness ==
    /\ app.state = FileSearch
    /\ app.search_query = <<>>
    /\ cmd = NoCommand
    /\ Len(app.files) > MaxEntries
    /\ visible_files(app) = app.files
    /\ app.file_cursor = 0
    /\ app.file_scroll = 0

\* The start-download key
DownloadKey == Char("d")

\* The start-download key opens the picker in this state
CanStartDownload(a) ==
    /\ a.state.tag \in {"Ready", "Error"}
    /\ a.focused_panel = "Files"
    /\ HighlightedEntry(a) # None
    /\ HighlightedEntry(a)[1].name # DotDot

\* C19: Mode becomes PickingDestination only on the start-download key when
\* the Files panel is focused, an entry is highlighted in the visible list
\* and that entry is not the synthetic parent entry, and then it does; in
\* every other case the start-download key creates no picker and leaves
\* Mode unchanged (an Error overlay is dismissed, as by any key).  The
\* picker's source path is the path of the highlighted entry.
C19_DownloadStart ==
    [][/\ app.state.tag # "DownloadDialog" /\ app'.state.tag = "DownloadDialog"
             => /\ CanStartDownload(render(app))
                /\ KeyPress(DownloadKey)
       /\ CanStartDownload(render(app)) /\ KeyPress(DownloadKey)
             => /\ app'.state = DownloadDialogState
                /\ app'.download_dialog # None
                /\ app'.download_dialog[1].source_path
                      = HighlightedEntry(render(app))[1].path
                /\ cmd' = NoCommand
                /\ tasks' = tasks
       /\ ~CanStartDownload(render(app)) /\ KeyPress(DownloadKey)
             => /\ app.download_dialog = None => app'.download_dialog = None
                /\ app'.state = clear_error(app).state
                /\ cmd' = NoCommand
                /\ tasks' = tasks]_vars

\* The picker was opened on the second entry of a listing, a file
C19_Witness ==
    /\ app.state = DownloadDialogState
    /\ app.download_dialog # None
    /\ app.file_cursor = 1
    /\ app.download_dialog[1].source_path = P(<<nH, nQ>>)
    /\ cmd = NoCommand

\* A restore has been started and its completion has not been folded
RestoreOutstanding ==
    \/ \E i \in 1..Len(tasks) : tasks[i].kind = "Download"
    \/ \E i \in 1..Len(chan) : chan[i].kind = "Download"

\* The picker as the last draw left it
Picker == render(app).download_dialog[1]

\* The picker is discarded, Mode is Ready, no command is emitted
PickerCancelled ==
    /\ app'.download_dialog = None
    /\ app'.state = Ready
    /\ cmd' = NoCommand
    /\ tasks' = tasks

\* C20: in PickingDestination, cancel (Esc with any control focused, or
\* Enter on the cancel control) discards the picker, sets Mode to Ready and
\* emits no command; confirming (Enter on the confirm control) discards the
\* picker and emits exactly one restore command whose source is the picker's
\* source path and whose target is the resolved destination; Mode becomes
\* Downloading(source) when the command is started, and is Ready only after
\* the completion of the restore is folded.
C20_PickerCancelConfirm ==
    [][/\ app.state.tag = "DownloadDialog" /\ app.download_dialog # None
             /\ KeyPress(Plain("Esc"))
             => PickerCancelled
       /\ app.state.tag = "DownloadDialog" /\ app.download_dialog # None
             /\ app.download_dialog[1].focus = "CancelButton"
             /\ KeyPress(Plain("Enter"))
             => PickerCancelled
       /\ app.state.tag = "DownloadDialog" /\ app.download_dialog # None
             /\ app.download_dialog[1].focus = "DownloadButton"
             /\ KeyPress(Plain("Enter"))
             => /\ app'.download_dialog = None
                /\ cmd' = DownloadCommand(Picker.source_path, confirmed_path(Picker))
                /\ app'.state = Downloading(Picker.source_path)
                /\ app.current_snapshot_id # None
                /\ tasks' = Append(tasks, Task("Download", app.current_snapshot_id[1],
                                              Picker.source_path, confirmed_path(Picker)))
       /\ RestoreOutstanding' => app'.state.tag # "Ready"]_vars

\* C21 as stated: whenever the picker is opened its initial text is the
\* destination of the most recent restore that completed successfully (the
\* one the status line names), or the process working directory if no
\* restore has succeeded yet.
C21_PickerStartsAtLastSuccess ==
    [][CanStartDownload(render(app)) /\ KeyPress(DownloadKey)
          => app'.download_dialog[1].input_text
                = IF app.status_message = None THEN CurrentDir
                  ELSE app.status_message[1]]_vars

\* C21: whenever the picker is opened its initial text (with the edit cursor
\* at its end) is the destination most recently confirmed in the picker,
\* whether or not that restore succeeded, or the process working directory
\* if none has been confirmed; the remembered destination is changed only
\* by confirming, to the target of the emitted restore command.
C21_PickerStartsAtLastConfirmed ==
    /\ app.last_download_dir = CurrentDir
    /\ [][/\ CanStartDownload(render(app)) /\ KeyPress(DownloadKey)
                => /\ app'.download_dialog[1].input_text = app.last_download_dir
                   /\ app'.download_dialog[1].cursor_pos = Len(app.last_download_dir)
                   /\ app'.last_download_dir = app.last_download_dir
          /\ app'.last_download_dir # app.last_download_dir
                => /\ cmd'.kind = "Download"
                   /\ app'.last_download_dir = cmd'.target]_vars

\* No restore has succeeded, the restore to a directory chosen in the picker
\* has failed and was folded, and the picker was opened again on that
\* directory
C21_Witness ==
    /\ app.status_message = None
    /\ tasks = <<>> /\ chan = <<>>
    /\ app.last_download_dir # CurrentDir
    /\ app.state = DownloadDialogState
    /\ app.download_dialog # None
    /\ app.download_dialog[1].input_text = app.last_download_dir
    /\ cmd = NoCommand


\* C22: at every control-loop iteration boundary a Directory Picker instance
\* exists if and only if Mode is PickingDestination.  (The half "Mode
\* PickingDestination implies a picker" holds; a picker survives the fold of a
\* listing that was started from the help overlay while the previous one was
\* still loading.)
C22_PickerIffPickingDestination ==
    (app.download_dialog # None) <=> (app.state = DownloadDialogState)


\* C23 as stated: whatever keys the user presses, Mode Loading or Downloading
\* always eventually leads to Ready or Error.
C23_BusyLeadsToReadyOrError ==
    (app.state.tag \in {"Loading", "Downloading"})
        ~> (app.state.tag \in {"Ready", "Error"})

\* C23: unless the user quits, every emitted listing or restore command runs
\* to completion and has exactly one completion folded into state (a command
\* stops being outstanding only by the fold of its completion, one at a
\* time), whatever other keys are pressed while it is in flight; hence Mode
\* Loading or Downloading always eventually leads to Ready or Error or to the
\* terminate flag being set.
C23_BusyLeadsToReadyOrErrorOrQuit ==
    /\ [][Outstanding' < Outstanding
            => /\ chan # <<>>
               /\ Outstanding' = Outstanding - 1
               /\ tasks' = tasks /\ chan' = Tail(chan)
               /\ app' = handle_task_result(app, Head(chan))]_vars
    /\ (app.state.tag \in {"Loading", "Downloading"})
           ~> (app.state.tag \in {"Ready", "Error"} \/ app.should_quit)

\* A completion has just been folded into Ready while a command emitted
\* during its flight is still outstanding
C23_Witness ==
    /\ cmd = NoKey
    /\ app.state = Ready
    /\ tasks # <<>>
    /\ ~app.should_quit


\* C24: for every non-zero item count and every cursor position, a
\* jump-to-top movement sets the focused panel's cursor to exactly 0 and a
\* jump-to-bottom movement sets it to exactly count-1 (the filtered count
\* when a filter is active); with zero items any movement leaves the cursor
\* unchanged.
C24_JumpTopBottom ==
    [][\A key \in Keys :
          /\ app.state.tag \in {"Ready", "Error"}
          /\ key_to_movement(key) # None
          /\ KeyPress(key)
          => LET kind == key_to_movement(key)[1].kind
                 count == IF app.focused_panel = "Snapshots"
                          THEN Len(app.snapshots) ELSE visible_file_count(app)
                 before == IF app.focused_panel = "Snapshots"
                           THEN app.snapshot_cursor ELSE app.file_cursor
                 after == IF app.focused_panel = "Snapshots"
                          THEN app'.snapshot_cursor ELSE app'.file_cursor
             IN  /\ app'.focused_panel = app.focused_panel
                 /\ count = 0 => after = before
                 /\ count # 0 /\ kind = "Top" => after = 0
                 /\ count # 0 /\ kind = "Bottom" => after = count - 1]_vars

\* The Files cursor stands on the last of the entries a non-empty query
\* has left, below the first, after a movement key
C24_Witness ==
    /\ app.state = Ready
    /\ cmd = NoCommand
    /\ app.focused_panel = "Files"
    /\ app.search_query # <<>>
    /\ Len(app.filtered_files) < Len(app.files)
    /\ app.file_cursor = Len(app.filtered_files) - 1
    /\ app.file_cursor > 0
    /\ Char("G") \in KeysOf(user)


\* C25: after every query edit the match set is exactly the index of the
\* parent entry (if present) plus the index of every other entry whose name
\* contains the query as a case-insensitive substring (every entry when the
\* query is empty), listed in strictly increasing index order.
C25_MatchSetExact ==
    [][\A key \in FilterKeys :
          FilterKey(key) /\ app'.search_query # app.search_query
          => LET ff == app'.filtered_files
                 q == app'.search_query
                 files == app'.files
                 SameLetter(c, e) == to_lowercase_char(c) = to_lowercase_char(e)
                 Occurs(name) ==
                     \E off \in 0..(Len(name) - Len(q)) :
                         \A j \in 1..Len(q) : SameLetter(name[off + j], q[j])
             IN  /\ \A k \in 1..(Len(ff) - 1) : ff[k] < ff[k + 1]
                 /\ \A k \in 1..Len(ff) : ff[k] \in 0..(Len(files) - 1)
                 /\ \A i \in 0..(Len(files) - 1) :
                       (\E k \in 1..Len(ff) : ff[k] = i)
                          <=> \/ files[i + 1].name = DotDot
                              \/ q = <<>>
                              \/ Occurs(files[i + 1].name)]_vars

\* A key has left a lower-case query that matches, besides the parent entry,
\* an entry spelt with the capital letter, and hides another entry
C25_Witness ==
    /\ app.state = FileSearch
    /\ cmd = NoCommand
    /\ app.search_query = <<"d">>
    /\ Len(app.files) = MaxEntries + 1
    /\ app.files[1].name = DotDot
    /\ \E k \in 1..Len(app.filtered_files) :
          app.files[app.filtered_files[k] + 1].name = <<"o", "D">>
    /\ Len(app.filtered_files) < Len(app.files)
    /\ Len(app.filtered_files) >= 3


\* C26: in every reachable state in which the filtered view is in effect (the
\* query is non-empty or Mode is Searching) the stored match set is exactly
\* the match set of the current query over the current entry list, every
\* index valid, and the list rendered, the movement bound and the highlighted
\* entry are taken from that filtered view; otherwise all three are taken
\* from the unfiltered list.
C26_FilteredViewConsistent ==
    LET active == app.search_query # <<>> \/ app.state.tag = "FileSearch"
        ff == app.filtered_files
        view == IF active
                THEN [k \in 1..Len(ff) |-> app.files[ff[k] + 1]]
                ELSE app.files
    IN  /\ active => /\ \A k \in 1..Len(ff) : ff[k] \in 0..(Len(app.files) - 1)
                     /\ ff = MatchSet(app.files, app.search_query)
        /\ visible_files(app) = view
        /\ visible_file_count(app) = Len(view)
        /\ file_at_cursor(app) = Get(view, app.file_cursor)

\* Browsing with a query that hides the first entry: the highlighted entry
\* is not the entry of the full list at the cursor
C26_Witness ==
    /\ app.state = Ready
    /\ cmd = NoCommand
    /\ app.search_query # <<>>
    /\ app.filtered_files # <<>>
    /\ file_at_cursor(app) # Get(app.files, app.file_cursor)


\* C27: folding a successful listing sets the entry list to the received
\* entries in their received order, preceded by the parent entry when the
\* current path differs from the active snapshot's root, empties the query
\* and the match set and sets cursor and scroll to 0; and the Files entry
\* list is changed only by this fold and by a cache-restoring back.
C27_ListingFoldSoleMutator ==
    [][/\ Fold /\ Head(chan).kind = "Files" /\ Head(chan).ok
            => /\ app'.files = IF app.current_path # ActiveRoot(app)
                               THEN <<parent_entry(app.current_path)>> \o Head(chan).files
                               ELSE Head(chan).files
               /\ app'.search_query = <<>>
               /\ app'.filtered_files = <<>>
               /\ app'.file_cursor = 0
               /\ app'.file_scroll = 0
       /\ app'.files # app.files
            => \/ Fold /\ Head(chan).kind = "Files" /\ Head(chan).ok
               \/ /\ chan = <<>> /\ cmd' = NoCommand
                  /\ app.nav_stack # <<>>
                  /\ app'.nav_stack = Front(app.nav_stack)
                  /\ app'.files = Last(app.nav_stack).files]_vars


\* ------------------------------------------------------------------------
\* The directory picker: the picker has been opened on the file q of /h at
\* the working directory; the user edits the path text, moves in the
\* listing, cycles the focus, and cancels or confirms
\* ------------------------------------------------------------------------
PickerChars == {"/", ".", "h", "b", "f", "~"}

PickerKeys ==
    { Char(c) : c \in PickerChars }
       \cup { Plain("Backspace"), Plain("Delete"), Plain("Left"), Plain("Right"),
              Plain("Home"), Plain("End"), Plain("Up"), Plain("Down"),
              Plain("Enter"), Key("Enter", "", TRUE, FALSE),
              Plain("Tab"), Key("Tab", "", FALSE, TRUE), Plain("BackTab"),
              Plain("Esc") }

PickerInit ==
    /\ app = open_download_dialog(
                [set_files([App_new EXCEPT !.snapshots = ArchiveSnapshots,
                                           !.current_snapshot_id = Some("s1"),
                                           !.current_path = P(<<nH>>),
                                           !.focused_panel = "Files"],
                           ArchiveListing("s1", P(<<nH>>)))
                   EXCEPT !.file_cursor = 1]).app
    /\ tasks = <<>>
    /\ chan = <<>>
    /\ cmd = NoCommand
    /\ user = "Restore"
    /\ observed = <<>>
    /\ backs = 0

\* A key while the picker is open: draw, handle_key, spawn_command
PickerKey(key) ==
    /\ app.state = DownloadDialogState
    /\ app.download_dialog # None
    /\ key \in PickerKeys
    /\ key.code = "Char" /\ app.download_dialog[1].focus = "PathPicker"
          => Len(app.download_dialog[1].input_text) < MaxPickerText
    /\ \E a \in {render(app)} :
       \E r \in {handle_key(a, key)} :
       \E s \in {spawn_command(r.app, tasks, r.cmd)} :
           /\ app' = s.app
           /\ tasks' = s.tasks
           /\ cmd' = r.cmd
    /\ UNCHANGED <<chan, user, observed, backs>>

PickerNext == \E key \in PickerKeys : PickerKey(key)

PickerSpec == PickerInit /\ [][PickerNext]_vars


\* C28: picker focus ranges over exactly three controls and cycles: forward
\* goes path text -> confirm -> cancel -> path text, backward is the exact
\* inverse of forward, three forward (or three backward) steps return to the
\* starting control, and focus cycling changes nothing else in the picker
\* (text, cursor, listing, selection).
C28_FocusCycle ==
    [][\A key \in PickerKeys :
          key.code \in {"Tab", "BackTab"} /\ PickerKey(key)
          => LET forward == key.code = "Tab" /\ ~key.shift
                 Fwd(f) == CASE f = "PathPicker" -> "DownloadButton"
                             [] f = "DownloadButton" -> "CancelButton"
                             [] f = "CancelButton" -> "PathPicker"
                 d == Picker
                 e == app'.download_dialog[1]
             IN  /\ d.focus \in {"PathPicker", "DownloadButton", "CancelButton"}
                 /\ forward => e.focus = Fwd(d.focus)
                 /\ ~forward => Fwd(e.focus) = d.focus
                 /\ e = [d EXCEPT !.focus = e.focus]
                 /\ app' = [render(app) EXCEPT !.download_dialog = Some(e)]
                 /\ cmd' = NoCommand
                 /\ focus_prev(focus_next(d)) = d
                 /\ focus_next(focus_prev(d)) = d
                 /\ focus_next(focus_next(focus_next(d))) = d
                 /\ focus_prev(focus_prev(focus_prev(d))) = d]_vars

\* The focus has been cycled to the cancel control of a picker whose text
\* was edited and whose selection was moved
C28_Witness ==
    /\ app.state = DownloadDialogState
    /\ app.download_dialog # None
    /\ cmd = NoCommand
    /\ app.download_dialog[1].focus = "CancelButton"
    /\ app.download_dialog[1].input_text = <<"/", ".", "h">>
    /\ app.download_dialog[1].selected = 2
    /\ app.download_dialog[1].cursor_pos = 1


\* C29: in PickingDestination a restore command is emitted only by Enter
\* while the confirm control is focused: Enter with the path text focused,
\* Enter with the cancel control focused and every other key with any focus
\* emit no command; Enter on the path text with no entry at the selection
\* index changes nothing.
C29_OnlyConfirmEmits ==
    [][\A key \in PickerKeys :
          PickerKey(key)
          => /\ cmd'.kind \in {"None", "Download"}
             /\ (cmd' # NoCommand \/ tasks' # tasks)
                   => /\ key.code = "Enter"
                      /\ Picker.focus = "DownloadButton"
                      /\ cmd' = DownloadCommand(Picker.source_path, cmd'.target)
                      /\ tasks' = Append(tasks, Task("Download", "s1", cmd'.path, cmd'.target))
             /\ (/\ key.code = "Enter"
                 /\ Picker.focus = "PathPicker"
                 /\ Get(Picker.entries, Picker.selected) = None)
                   => app' = render(app) /\ cmd' = NoCommand]_vars

\* The confirm control has emitted the restore of q to the typed directory
C29_Witness ==
    /\ cmd.kind = "Download"
    /\ cmd.target = <<"/", ".", "h">>
    /\ app.state.tag = "Downloading"
    /\ app.download_dialog = None
    /\ Len(tasks) = 1


\* C30: every picker operation that changes the path text (inserting a
\* character, a backspace or delete that removes a character, committing the
\* selected listing entry, going to the parent) recomputes the listing from
\* the new text and leaves selection index and scroll offset at 0;
\* cursor-only moves and selection moves do not refresh the listing; and the
\* selection index is always a valid index of the listing (or 0 when it is
\* empty).
C30_TextChangeRefreshes ==
    [][\A key \in PickerKeys :
          (PickerKey(key) /\ app'.download_dialog # None)
          => LET d == Picker
                 e == app'.download_dialog[1]
                 onText == d.focus = "PathPicker"
                 Valid(x) == IF x.entries = <<>> THEN x.selected = 0
                             ELSE x.selected \in 0..(Len(x.entries) - 1)
             IN  /\ Valid(d) /\ Valid(e)
                 /\ e.input_text # d.input_text
                       => /\ onText
                          /\ key.code \in {"Char", "Backspace", "Delete", "Enter"}
                          /\ e.entries = DownloadDialog_new(d.source_path, e.input_text).entries
                          /\ e.selected = 0
                          /\ e.scroll = 0
                 /\ (onText /\ key.code = "Char" /\ ~key.ctrl)
                       => Len(e.input_text) = Len(d.input_text) + 1
                 /\ (onText /\ key.code = "Backspace" /\ d.cursor_pos > 0)
                       => Len(e.input_text) = Len(d.input_text) - 1
                 /\ (onText /\ key.code = "Delete" /\ d.cursor_pos < Len(d.input_text))
                       => Len(e.input_text) = Len(d.input_text) - 1
                 /\ (onText /\ key.code \in {"Left", "Right", "Home", "End"})
                       => e = [d EXCEPT !.cursor_pos = e.cursor_pos]
                 /\ (onText /\ key.code \in {"Up", "Down"})
                       => /\ e = [d EXCEPT !.selected = e.selected]
                          /\ e.selected \in {d.selected - 1, d.selected, d.selected + 1}]_vars

\* The third entry of the listing of /.h has been committed: the text names
\* it, the listing is that of the new directory, selection and scroll are 0
C30_Witness ==
    /\ app.state = DownloadDialogState
    /\ app.download_dialog # None
    /\ cmd = NoCommand
    /\ app.download_dialog[1].input_text = <<"/", ".", "h", "/", "h">>
    /\ app.download_dialog[1].cursor_pos = 5
    /\ app.download_dialog[1].entries = <<DirEntry(DotDot)>>
    /\ app.download_dialog[1].selected = 0
    /\ app.download_dialog[1].scroll = 0


\* C31: the picker listing is a function of the input text and the
\* filesystem only: a leading '..' entry iff the resolved directory (the
\* text's directory, or its parent when the text does not name a directory)
\* is not the filesystem root, followed by exactly the non-hidden immediate
\* sub-directories of the resolved directory in case-insensitive name order;
\* a partially typed last segment selects the base directory.
C31_ListingOfResolvedDirectory ==
    app.download_dialog # None
    => LET d == app.download_dialog[1]
           t == expand_tilde(d.input_text)
           comps == Components(t, <<>>)
           start == IF t # <<>> /\ t[1] = "/" THEN <<>> ELSE Components(CurrentDir, <<>>)
           resolved == IF text_is_dir(t) THEN ResolveText(t)
                       ELSE IF comps = <<>> THEN None
                       ELSE Walk(start, Front(comps))
       IN  resolved # None
           => LET dir == resolved[1]
                  subs == { Last(x) : x \in { y \in LocalDirs : y # <<>> /\ Front(y) = dir } }
                  shown == { n \in subs : n[1] # "." }
                  dotdot == IF dir # <<>> THEN 1 ELSE 0
                  e == d.entries
              IN  /\ Len(e) = dotdot + Cardinality(shown)
                  /\ dotdot = 1 => e[1] = DirEntry(DotDot)
                  /\ \A k \in (dotdot + 1)..Len(e) : e[k].is_dir /\ e[k].name \in shown
                  /\ \A k \in (dotdot + 1)..(Len(e) - 1) :
                        /\ e[k].name # e[k + 1].name
                        /\ StrLeq(to_lowercase(e[k].name), to_lowercase(e[k + 1].name))


\* C32: no picker operation other than the user's own character insert or
\* delete replaces a leading '~' of the input text: a text that begins with
\* '~' still begins with '~' after a listing refresh, a selection move,
\* committing a listing entry and going to the parent.
C32_TildeStaysInText ==
    [][\A key \in PickerKeys :
          (/\ key.code \notin {"Char", "Backspace", "Delete"}
           /\ PickerKey(key)
           /\ app'.download_dialog # None
           /\ Picker.input_text # <<>>
           /\ Picker.input_text[1] = "~")
          => /\ app'.download_dialog[1].input_text # <<>>
             /\ app'.download_dialog[1].input_text[1] = "~"]_vars


\* C33: each loop iteration folds all completions available, in the order
\* they were placed on the channel, before handling at most one key event; a
\* command emitted while handling a key is not completed or folded in the
\* same iteration, and key handling does not wait for the backend: the
\* emitted command is left running.  (A step that leaves the channel alone
\* is the draw and the poll of an iteration, with or without a key.)
C33_DrainThenOneKey ==
    [][/\ chan' # chan /\ Len(chan') <= Len(chan)
             => /\ chan' = Tail(chan)
                /\ app' = handle_task_result(app, Head(chan))
                /\ tasks' = tasks
       /\ (chan' = chan /\ <<app, tasks, cmd>>' # <<app, tasks, cmd>>)
             => /\ chan = <<>>
                /\ \/ tasks' = tasks
                   \/ /\ Front(tasks') = tasks
                      /\ cmd'.kind \in {"NavigateDir", "LoadSnapshot", "Download"}
                      /\ Last(tasks').path = cmd'.path]_vars

\* The drain loop has folded one completion and the next one is waiting in
\* the channel
C33_Witness ==
    /\ cmd = NoKey
    /\ Len(chan) = 1
    /\ tasks = <<>>
    /\ ~app.should_quit


\* C34: in Ready, for every key code and modifier set, the one action
\* performed is the highest-priority applicable one in the order quit > help
\* > movement > panel-switch > select > back > download > search-start, and
\* no lower one as well; Control+f/b/d/u are page and half-page movements
\* and never the plain-letter action (Control+d never opens the picker).
C34_OneActionByPriority ==
    app.state = Ready
    => \A a \in {render(app)} :
       \A key \in { Char(c) : c \in {"q", "?", "d", "h", "j", "k", "g", "G", "/", "f", "x"} }
                     \cup { Ctrl(c) : c \in {"f", "b", "d", "u", "h", "j", "q"} }
                     \cup { Plain(c) : c \in {"Esc", "Enter", "Tab", "BackTab", "Backspace",
                                              "Left", "Up", "Down", "Home", "End",
                                              "PageUp", "PageDown"} } :
          LET r == handle_key(a, key)
              mv == key_to_movement(key)
              page == CASE key.ch = "f" -> "PageDown" [] key.ch = "b" -> "PageUp"
                        [] key.ch = "d" -> "HalfPageDown" [] OTHER -> "HalfPageUp"
          IN  /\ r = (IF is_quit(key) THEN Res([a EXCEPT !.should_quit = TRUE], QuitCommand)
                      ELSE IF is_help(key) THEN Res([a EXCEPT !.state = Help], NoCommand)
                      ELSE IF mv # None THEN Res(apply_movement(a, mv[1]), NoCommand)
                      ELSE IF is_panel_switch(key) THEN Res(switch_panel(a), NoCommand)
                      ELSE IF is_select(key) THEN select_item(a)
                      ELSE IF is_back(key) THEN go_back(a)
                      ELSE IF is_download(key) THEN open_download_dialog(a)
                      ELSE IF IsChar(key, "/") /\ a.focused_panel = "Files"
                      THEN Res(start_file_search(a), NoCommand)
                      ELSE Res(a, NoCommand))
              /\ (key.ctrl /\ key.code = "Char" /\ key.ch \in {"f", "b", "d", "u"})
                    => r = Res(apply_movement(a, Movement(page, 0)), NoCommand)

\* Ready on a listing on which 'd' opens the picker, the cursor below the
\* top after a movement key of a user who presses Control+d, no picker open
C34_Witness ==
    /\ app.state = Ready
    /\ cmd = NoCommand
    /\ app.focused_panel = "Files"
    /\ app.file_cursor = 1
    /\ app.download_dialog = None
    /\ Ctrl("d") \in KeysOf(user)
    /\ Char("d") \in KeysOf(user)
    /\ open_download_dialog(app).app.download_dialog # None


C36_ListingMatchesPath ==
    (app.state = Ready /\ app.current_snapshot_id # None)
    => LET id == app.current_snapshot_id[1]
           Fetched(path, files) ==
               files \in { ArchiveListing(id, path),
                           <<parent_entry(path)>> \o ArchiveListing(id, path) }
           n == Len(app.nav_stack)
       IN  /\ Fetched(app.current_path, app.files)
           /\ \A k \in 1..n : Fetched(app.nav_stack[k].path, app.nav_stack[k].files)
           /\ \A k \in 1..(n - 1) :
                 Some(app.nav_stack[k].path) = path_parent(app.nav_stack[k + 1].path)
           /\ n > 0 => Some(app.nav_stack[n].path) = path_parent(app.current_path)


\* ------------------------------------------------------------------------
\* Browsing a directory with two sub-directories: the listing [Do/, q/, d] of
\* /h has been folded and a search has been confirmed with Enter, with an
\* empty query or with a query that hides entries
\* ------------------------------------------------------------------------
BackInit ==
    /\ \E query \in { <<>>, <<"q">>, <<"D">> } :
          app = [apply_search_filter(
                    [set_files([App_new EXCEPT !.snapshots = ArchiveSnapshots,
                                               !.current_snapshot_id = Some("s1"),
                                               !.current_path = P(<<nH>>),
                                               !.focused_panel = "Files"],
                               << Child(<<nH>>, nDo, "dir"), Child(<<nH>>, nQ, "dir"),
                                  Child(<<nH>>, nD, "file") >>)
                       EXCEPT !.search_query = query,
                              !.search_cursor = Len(query)])
                   EXCEPT !.state = Ready]
    /\ tasks = <<>>
    /\ chan = <<>>
    /\ cmd = NoCommand
    /\ user \in {"Browse", "Search"}
    /\ observed = <<>>
    /\ backs = 0

BackSpec == BackInit /\ [][Next]_vars

\* C37: after a cache-restoring back the entry highlighted in the visible
\* Files list is the directory that had been descended into, including when
\* the descent was made while a confirmed search filter was active.
C37_BackHighlightsDescended ==
    [][\A key \in KeysOf(user) :
          (app.nav_stack # <<>> /\ IsBack(render(app), key) /\ KeyPress(key))
          => /\ file_at_cursor(app') # None
             /\ file_at_cursor(app')[1].path = app.current_path]_vars


\* C38: in Searching mode, pressing any character key inserts that character
\* into the query at the edit cursor, advances the edit cursor by one and
\* recomputes the match set (the letters j and k included).
C38_CharKeyInserts ==
    [][\A key \in FilterKeys :
          (key.code = "Char" /\ app.state.tag = "FileSearch" /\ FilterKey(key))
          => /\ app'.search_query
                   = string_insert(app.search_query, app.search_cursor, key.ch)
             /\ app'.search_cursor = app.search_cursor + 1
             /\ app'.filtered_files = MatchSet(app.files, app'.search_query)]_vars

\* C39: in Searching mode the edit cursor is between 0 and the length of the
\* query and lies on a character boundary, so that no insert, backspace or
\* delete can panic.
C39_EditCursorOnBoundary ==
    app.state.tag = "FileSearch"
    => /\ app.search_cursor \in 0..str_len(app.search_query)
       /\ \E n \in 0..Len(app.search_query) :
             str_len(SubSeq(app.search_query, 1, n)) = app.search_cursor
       /\ \A key \in FilterKeys : ~handle_file_search_key_panics(app, key)


====
